---- MODULE Spec2Model ----
(***************************************************************************)
(* TypeMaster: the typing-session hook (useTypingSession), the keyboard    *)
(* listener (useKeyboardInput), the countdown timer (useTimer) and the two *)
(* screens that wire them together (LearningMode, TestMode).               *)
(*                                                                         *)
(* React state is modelled by one variable per useState cell.  A handler   *)
(* is a function from the committed state s and the closure c it was       *)
(* created in (the values of the render that bound it) to the state after  *)
(* its updates; setX(v) writes a value computed from c, setX(prev => ..)   *)
(* is applied to s.  Key events are discrete events: React re-renders and  *)
(* flushes the effects before the next event, so an action is the handler  *)
(* followed by the effects run to their fixed point.                       *)
(*                                                                         *)
(* Accuracy is kept in tenths of a percent (1000 is 100.0).                *)
(***************************************************************************)
EXTENDS Integers, Sequences, FiniteSets, TLC

\* Bounds of the model.
MaxLen == 2          \* longest exercise text
MaxMistakes == 2     \* mistyped-key tally entries recorded before input stops
\* TestMode.jsx:26 sets TEST_DURATION = 60; the model counts the same
\* one-second ticks from a shorter start.
TEST_DURATION == 2
MaxSamples == 1      \* elapsed-time samples taken in one session
MaxHistory == 2      \* test sessions recorded before new ones stop

\* The period of the elapsed-time interval, in milliseconds.
SAMPLE_MS == 100
\* ADD_HISTORY keeps the newest 100 records.
HISTORY_LIMIT == 100
MaxNumber == 2       \* largest number tried as a field of an imported file
MaxChars == 6        \* largest count of correct, and of incorrect, characters
                     \* the statistics are computed for

UNDEFINED == "undefined"

TextChars == {"a", "b", "\n"}
\* Exercise texts: loadExercises keeps only the rows that have a text.
Texts == UNION {[1..n -> TextChars] : n \in 1..MaxLen}
\* Texts the hook can be rendered with: state.currentExercise?.text || ''.
HookTexts == Texts \cup {<<>>}
Modes == {"learning", "test"}

\* event.key values: printable characters, Enter, Backspace, the keys let
\* through to the browser, modifier keys and one other named key.
PrintableKeys == {"a", "b", "x", "A"}
ModifierKeys == {"Shift", "Control", "Alt", "Meta", "CapsLock", "Escape"}
EventKeys == PrintableKeys \cup ModifierKeys \cup
             {"Enter", "Backspace", "Tab", "F5", "ArrowLeft"}
Plain(k) == [key |-> k, ctrlKey |-> FALSE, metaKey |-> FALSE, altKey |-> FALSE]
\* Every key alone, and a character, Enter and Backspace held with one of
\* Ctrl, Meta, Alt.
KeyEvents ==
  {Plain(k) : k \in EventKeys} \cup
  {e \in [key : {"a", "Enter", "Backspace"}, ctrlKey : BOOLEAN,
          metaKey : BOOLEAN, altKey : BOOLEAN] :
     Cardinality({f \in {"c", "m", "a"} :
                    \/ f = "c" /\ e.ctrlKey
                    \/ f = "m" /\ e.metaKey
                    \/ f = "a" /\ e.altKey}) = 1}
\* Characters handleKeyPress can be called with.
TypedKeys == PrintableKeys \cup {"\n"}

VARIABLES
  mode,           \* second argument of useTypingSession / the screen mounted
  text,           \* state.currentExercise?.text || ''
  currentIndex,   \* useTypingSession state
  typedChars,
  hasStarted,
  isComplete,
  errors,
  correctCount,
  mistypedKeys,   \* AppContext state.mistypedKeys
  timeRemaining,  \* useTimer state (TestMode)
  isRunning,
  isFinished,
  showResults,    \* TestMode state
  intervalRef,    \* useTimer intervalRef.current: "null", a "live" interval
                  \* or one already "cleared"
  intervals,      \* number of live setInterval timers of useTimer
  elapsedTime,    \* useTypingSession state, milliseconds
  history,        \* AppContext state.history, newest first
  run,            \* the timer's run since it was created or last reset:
                  \* its duration, the ticks fired, the transitions to
                  \* Finished, and the timer before the last call
  lastEvent,      \* the event or call the last step delivered
  delivered,      \* the last keydown event observed and the handler calls
                  \* handleKeyDown made for it
  imported,       \* the last string given to importData and what it returned
  clock,          \* Date.now(), in milliseconds since the screen was mounted
  startTime,      \* useTypingSession startTimeRef.current, NullTime for null
  currentStats,   \* AppContext state.currentStats, wpm and accuracy in tenths
  effects,        \* the dependencies the update-stats and save-session
                  \* effects last ran with, whether the store was dispatched
                  \* to since, and the effect passes since the last event
  keyboard,       \* KeyboardVisualization2D state, with the last character
                  \* given to getFingerForChar and the finger returned
  calc,           \* the last arguments of calculateWPM and calculateAccuracy
                  \* with the values returned, in tenths
  undo            \* the session before the last backspace, while it is
                  \* being retyped

sessionVars == <<currentIndex, typedChars, hasStarted, isComplete, errors, correctCount>>
timerVars == <<timeRemaining, isRunning, isFinished>>
vars == <<mode, text, currentIndex, typedChars, hasStarted, isComplete, errors,
          correctCount, mistypedKeys, timeRemaining, isRunning, isFinished,
          showResults, intervalRef, intervals, elapsedTime, history, run,
          lastEvent, delivered, imported, calc, clock, startTime, keyboard,
          currentStats, effects, undo>>

EmptyTally == [k \in {} |-> 0]

\* startTimeRef.current = null
NullTime == 0 - 1

\* initialState.currentStats, and the value START_SESSION and RESET_SESSION
\* give it; accuracy 100 in tenths.
InitialStats ==
  [wpm |-> 0, accuracy |-> 1000, errors |-> 0, totalChars |-> 0,
   correctChars |-> 0]

\* The committed state as one value.
St == [mode |-> mode, text |-> text, currentIndex |-> currentIndex,
       typedChars |-> typedChars, hasStarted |-> hasStarted,
       isComplete |-> isComplete, errors |-> errors,
       correctCount |-> correctCount, mistypedKeys |-> mistypedKeys,
       timeRemaining |-> timeRemaining, isRunning |-> isRunning,
       isFinished |-> isFinished, showResults |-> showResults,
       intervalRef |-> intervalRef, intervals |-> intervals,
       elapsedTime |-> elapsedTime, history |-> history,
       delivered |-> delivered, imported |-> imported, calc |-> calc,
       clock |-> clock, startTime |-> startTime, keyboard |-> keyboard,
       currentStats |-> currentStats, effects |-> effects,
       \* the dependencies the tick effect last ran with: every commit is
       \* followed by its effects
       tickDeps |-> <<isRunning, timeRemaining>>]

Commit(s) ==
  /\ mode' = s.mode
  /\ text' = s.text
  /\ currentIndex' = s.currentIndex
  /\ typedChars' = s.typedChars
  /\ hasStarted' = s.hasStarted
  /\ isComplete' = s.isComplete
  /\ errors' = s.errors
  /\ correctCount' = s.correctCount
  /\ mistypedKeys' = s.mistypedKeys
  /\ timeRemaining' = s.timeRemaining
  /\ isRunning' = s.isRunning
  /\ isFinished' = s.isFinished
  /\ showResults' = s.showResults
  /\ intervalRef' = s.intervalRef
  /\ intervals' = s.intervals
  /\ elapsedTime' = s.elapsedTime
  /\ history' = s.history
  /\ delivered' = s.delivered
  /\ imported' = s.imported
  /\ calc' = s.calc
  /\ clock' = s.clock
  /\ startTime' = s.startTime
  /\ keyboard' = s.keyboard
  /\ currentStats' = s.currentStats
  /\ effects' = s.effects

Max(a, b) == IF a >= b THEN a ELSE b

\* text[i] of a JS string, 0-based; undefined past the end.
CharAt(t, i) == IF i >= 0 /\ i < Len(t) THEN t[i + 1] ELSE UNDEFINED

\* The letters of the model that have another case.
Lower(ch) == IF ch = "A" THEN "a" ELSE ch

\* A comparison that folds case.
IsCorrect_CaseFold(key, expectedChar) == Lower(key) = Lower(expectedChar)

\* key === expectedChar
IsCorrect(key, expectedChar) == key = expectedChar

\* appReducer, UPDATE_MISTYPED_KEYS
recordMistypedKey(tally, key) ==
  [k \in DOMAIN tally \cup {key} |->
     IF k = key THEN (IF k \in DOMAIN tally THEN tally[k] ELSE 0) + 1
     ELSE tally[k]]

RECURSIVE TallySum(_, _)
TallySum(tally, keys) ==
  IF keys = {} THEN 0
  ELSE LET k == CHOOSE x \in keys : TRUE
       IN tally[k] + TallySum(tally, keys \ {k})
Mistakes(tally) == TallySum(tally, DOMAIN tally)

\* Math.round(x) for x = num / den >= 0: the nearest integer, halves up.
Round(num, den) == (2 * num + den) \div (2 * den)

\* calculateAccuracy that reports nothing typed as nothing right.
calculateAccuracy_ZeroForNone(correctChars, totalChars) ==
  IF totalChars <= 0 THEN 0
  ELSE Round(correctChars * 1000, totalChars)

\* calculateAccuracy, in tenths of a percent.
calculateAccuracy(correctChars, totalChars) ==
  IF totalChars <= 0 THEN 1000
  ELSE Round(correctChars * 1000, totalChars)

\* calculateWPM that cuts the second decimal instead of rounding.
calculateWPM_Truncated(correctChars, elapsedTimeMs) ==
  IF elapsedTimeMs <= 0 THEN 0
  ELSE (correctChars * 120000) \div elapsedTimeMs

\* calculateWPM, in tenths of a word per minute:
\* (correctChars / 5) / (elapsedTimeMs / 60000) * 10, rounded.
calculateWPM(correctChars, elapsedTimeMs) ==
  IF elapsedTimeMs <= 0 THEN 0
  ELSE Round(correctChars * 120000, elapsedTimeMs)

\* The two statistics of given arguments.
Measured(correctChars, totalChars, elapsedTimeMs) ==
  [correctChars |-> correctChars, totalChars |-> totalChars,
   elapsedTimeMs |-> elapsedTimeMs,
   accuracy |-> calculateAccuracy(correctChars, totalChars),
   wpm |-> calculateWPM(correctChars, elapsedTimeMs)]

\* accuracy measured against the length of the text.
accuracy_AgainstText(s) == calculateAccuracy(s.correctCount, Len(s.text))

\* useTypingSession: totalTyped and accuracy of a render.
totalTyped(s) == Len(s.typedChars)
accuracy(s) == calculateAccuracy(s.correctCount, totalTyped(s))

\* useTypingSession: wpm of a render.
wpm(s) == calculateWPM(s.correctCount, s.elapsedTime)

\* handleKeyPress that holds the cursor until the expected key is typed.
handleKeyPress_BlockOnError(s, c, key) ==
  IF c.isComplete \/ c.text = <<>> THEN s
  ELSE LET expectedChar == CharAt(c.text, c.currentIndex)
           isCorrect == IsCorrect(key, expectedChar)
           nextIndex == c.currentIndex + 1
       IN IF ~isCorrect
          THEN [s EXCEPT
                  !.hasStarted = IF ~c.hasStarted THEN TRUE ELSE @,
                  !.errors = @ + 1,
                  !.mistypedKeys = recordMistypedKey(@, expectedChar)]
          ELSE [s EXCEPT
                  !.hasStarted = IF ~c.hasStarted THEN TRUE ELSE @,
                  !.typedChars = Append(@, [char |-> key,
                                            expected |-> expectedChar,
                                            correct |-> isCorrect]),
                  !.correctCount = @ + 1,
                  !.currentIndex = nextIndex,
                  !.isComplete = IF nextIndex >= Len(c.text) THEN TRUE ELSE @]

\* handleKeyPress that completes one keypress late (> for >=).
handleKeyPress_LateComplete(s, c, key) ==
  IF c.isComplete \/ c.text = <<>> THEN s
  ELSE LET expectedChar == CharAt(c.text, c.currentIndex)
           isCorrect == IsCorrect(key, expectedChar)
           nextIndex == c.currentIndex + 1
       IN [s EXCEPT
             !.hasStarted = IF ~c.hasStarted THEN TRUE ELSE @,
             !.typedChars = Append(@, [char |-> key, expected |-> expectedChar,
                                       correct |-> isCorrect]),
             !.correctCount = IF isCorrect THEN @ + 1 ELSE @,
             !.errors = IF isCorrect THEN @ ELSE @ + 1,
             !.mistypedKeys = IF isCorrect THEN @
                              ELSE recordMistypedKey(@, expectedChar),
             !.currentIndex = nextIndex,
             !.isComplete = IF nextIndex > Len(c.text) THEN TRUE ELSE @]

\* handleKeyPress without the isComplete half of its first guard.
handleKeyPress_NoCompleteGuard(s, c, key) ==
  IF c.text = <<>> THEN s
  ELSE LET expectedChar == CharAt(c.text, c.currentIndex)
           isCorrect == IsCorrect(key, expectedChar)
           nextIndex == c.currentIndex + 1
       IN [s EXCEPT
             !.hasStarted = IF ~c.hasStarted THEN TRUE ELSE @,
             !.typedChars = Append(@, [char |-> key, expected |-> expectedChar,
                                       correct |-> isCorrect]),
             !.correctCount = IF isCorrect THEN @ + 1 ELSE @,
             !.errors = IF isCorrect THEN @ ELSE @ + 1,
             !.mistypedKeys = IF isCorrect THEN @
                              ELSE recordMistypedKey(@, expectedChar),
             !.currentIndex = nextIndex,
             !.isComplete = IF nextIndex >= Len(c.text) THEN TRUE ELSE @]

\* handleKeyPress that tallies the key typed instead of the one expected.
handleKeyPress_TallyTyped(s, c, key) ==
  IF c.isComplete \/ c.text = <<>> THEN s
  ELSE LET expectedChar == CharAt(c.text, c.currentIndex)
           isCorrect == IsCorrect(key, expectedChar)
           nextIndex == c.currentIndex + 1
       IN [s EXCEPT
             !.hasStarted = IF ~c.hasStarted THEN TRUE ELSE @,
             !.typedChars = Append(@, [char |-> key, expected |-> expectedChar,
                                       correct |-> isCorrect]),
             !.correctCount = IF isCorrect THEN @ + 1 ELSE @,
             !.errors = IF isCorrect THEN @ ELSE @ + 1,
             !.mistypedKeys = IF isCorrect THEN @
                              ELSE recordMistypedKey(@, key),
             !.currentIndex = nextIndex,
             !.isComplete = IF nextIndex >= Len(c.text) THEN TRUE ELSE @]

\* handleKeyPress without the test for an empty text.
handleKeyPress_NoTextGuard(s, c, key) ==
  IF c.isComplete THEN s
  ELSE LET expectedChar == CharAt(c.text, c.currentIndex)
           isCorrect == IsCorrect(key, expectedChar)
           nextIndex == c.currentIndex + 1
       IN [s EXCEPT
             !.hasStarted = IF ~c.hasStarted THEN TRUE ELSE @,
             !.startTime = IF ~c.hasStarted THEN s.clock ELSE @,
             !.typedChars = Append(@, [char |-> key, expected |-> expectedChar,
                                       correct |-> isCorrect]),
             !.correctCount = IF isCorrect THEN @ + 1 ELSE @,
             !.errors = IF isCorrect THEN @ ELSE @ + 1,
             !.mistypedKeys = IF isCorrect THEN @
                              ELSE recordMistypedKey(@, expectedChar),
             !.currentIndex = nextIndex,
             !.isComplete = IF nextIndex >= Len(c.text) THEN TRUE ELSE @]

\* handleKeyPress that takes the start time at every key.
handleKeyPress_Restamp(s, c, key) ==
  IF c.isComplete \/ c.text = <<>> THEN s
  ELSE LET expectedChar == CharAt(c.text, c.currentIndex)
           isCorrect == IsCorrect(key, expectedChar)
           nextIndex == c.currentIndex + 1
       IN [s EXCEPT
             !.hasStarted = IF ~c.hasStarted THEN TRUE ELSE @,
             !.startTime = s.clock,
             !.typedChars = Append(@, [char |-> key, expected |-> expectedChar,
                                       correct |-> isCorrect]),
             !.correctCount = IF isCorrect THEN @ + 1 ELSE @,
             !.errors = IF isCorrect THEN @ ELSE @ + 1,
             !.mistypedKeys = IF isCorrect THEN @
                              ELSE recordMistypedKey(@, expectedChar),
             !.currentIndex = nextIndex,
             !.isComplete = IF nextIndex >= Len(c.text) THEN TRUE ELSE @]

\* useTypingSession.handleKeyPress
handleKeyPress(s, c, key) ==
  IF c.isComplete \/ c.text = <<>> THEN s
  ELSE LET expectedChar == CharAt(c.text, c.currentIndex)
           isCorrect == IsCorrect(key, expectedChar)
           nextIndex == c.currentIndex + 1
       IN [s EXCEPT
             !.hasStarted = IF ~c.hasStarted THEN TRUE ELSE @,
             !.startTime = IF ~c.hasStarted THEN s.clock ELSE @,
             !.currentStats = IF ~c.hasStarted THEN InitialStats ELSE @,
             !.typedChars = Append(@, [char |-> key, expected |-> expectedChar,
                                       correct |-> isCorrect]),
             !.correctCount = IF isCorrect THEN @ + 1 ELSE @,
             !.errors = IF isCorrect THEN @ ELSE @ + 1,
             !.mistypedKeys = IF isCorrect THEN @
                              ELSE recordMistypedKey(@, expectedChar),
             !.currentIndex = nextIndex,
             !.isComplete = IF nextIndex >= Len(c.text) THEN TRUE ELSE @]

\* prev.slice(0, -1)
DropLast(seq) == IF seq = <<>> THEN <<>> ELSE SubSeq(seq, 1, Len(seq) - 1)

\* handleBackspace without the branch for a removed correct entry.
handleBackspace_NoCorrectBranch(s, c) ==
  IF c.mode # "learning" \/ c.currentIndex = 0 THEN s
  ELSE LET hasLast == c.typedChars # <<>>
           lastTyped == c.typedChars[Len(c.typedChars)]
       IN [s EXCEPT
             !.currentIndex = @ - 1,
             !.typedChars = DropLast(@),
             !.errors = IF hasLast /\ ~lastTyped.correct
                        THEN Max(0, @ - 1) ELSE @]

\* handleBackspace with the two branches exchanged.
handleBackspace_Swapped(s, c) ==
  IF c.mode # "learning" \/ c.currentIndex = 0 THEN s
  ELSE LET hasLast == c.typedChars # <<>>
           lastTyped == c.typedChars[Len(c.typedChars)]
       IN [s EXCEPT
             !.currentIndex = @ - 1,
             !.typedChars = DropLast(@),
             !.errors = IF hasLast /\ lastTyped.correct
                        THEN Max(0, @ - 1) ELSE @,
             !.correctCount = IF hasLast /\ ~lastTyped.correct
                              THEN Max(0, @ - 1) ELSE @]

\* handleBackspace that removes the entry and leaves both counters alone.
handleBackspace_NoCount(s, c) ==
  IF c.mode # "learning" \/ c.currentIndex = 0 THEN s
  ELSE [s EXCEPT !.currentIndex = @ - 1, !.typedChars = DropLast(@)]

\* handleBackspace that takes an emptied session for one not started.
handleBackspace_Unstart(s, c) ==
  IF c.mode # "learning" \/ c.currentIndex = 0 THEN s
  ELSE LET hasLast == c.typedChars # <<>>
           lastTyped == c.typedChars[Len(c.typedChars)]
       IN [s EXCEPT
             !.currentIndex = @ - 1,
             !.typedChars = DropLast(@),
             !.hasStarted = IF c.currentIndex = 1 THEN FALSE ELSE @,
             !.errors = IF hasLast /\ ~lastTyped.correct
                        THEN Max(0, @ - 1) ELSE @,
             !.correctCount = IF hasLast /\ lastTyped.correct
                              THEN Max(0, @ - 1) ELSE @]

\* useTypingSession.handleBackspace
handleBackspace(s, c) ==
  IF c.mode # "learning" \/ c.currentIndex = 0 THEN s
  ELSE LET hasLast == c.typedChars # <<>>
           lastTyped == c.typedChars[Len(c.typedChars)]
       IN [s EXCEPT
             !.currentIndex = @ - 1,
             !.typedChars = DropLast(@),
             !.errors = IF hasLast /\ ~lastTyped.correct
                        THEN Max(0, @ - 1) ELSE @,
             !.correctCount = IF hasLast /\ lastTyped.correct
                              THEN Max(0, @ - 1) ELSE @]

\* reset that also stops the countdown.
reset_StopsTimer(s) ==
  [s EXCEPT !.currentIndex = 0, !.typedChars = <<>>, !.hasStarted = FALSE,
            !.isComplete = FALSE, !.elapsedTime = 0, !.errors = 0,
            !.correctCount = 0, !.startTime = NullTime, !.isRunning = FALSE]

\* useTypingSession.reset, with the RESET_SESSION it dispatches
reset(s) ==
  [s EXCEPT !.currentIndex = 0, !.typedChars = <<>>, !.hasStarted = FALSE,
            !.isComplete = FALSE, !.elapsedTime = 0, !.errors = 0,
            !.correctCount = 0, !.startTime = NullTime,
            !.currentStats = InitialStats]

\* getCharStatus without the branch for the cursor.
getCharStatus_NoCurrent(s, index) ==
  IF index < Len(s.typedChars)
  THEN (IF s.typedChars[index + 1].correct THEN "correct" ELSE "incorrect")
  ELSE "pending"

\* useTypingSession.getCharStatus
getCharStatus(s, index) ==
  IF index < Len(s.typedChars)
  THEN (IF s.typedChars[index + 1].correct THEN "correct" ELSE "incorrect")
  ELSE IF index = s.currentIndex THEN "current"
  ELSE "pending"

\* The enabled flag each screen passes to useKeyboardInput.
LearningEnabled_Always(s) == TRUE
LearningEnabled(s) == ~s.isComplete
TestEnabled(s) == ~s.isComplete /\ ~s.isFinished /\ ~s.showResults
Enabled(s) == IF s.mode = "learning" THEN LearningEnabled(s) ELSE TestEnabled(s)

\* TestMode wired like LearningMode: the hook in learning mode and its
\* handleBackspace passed on.
onBackspace_CopiedFromLearning(s, c) ==
  handleBackspace(s, [c EXCEPT !.mode = "learning"])

\* The onBackspace each screen passes: LearningMode forwards to the hook,
\* TestMode passes none.
onBackspace(s, c) == IF c.mode = "learning" THEN handleBackspace(s, c) ELSE s

\* LearningMode/TestMode handleKeyPress: the key animation, then the hook.
onKeyPress(s, c, key) == handleKeyPress(s, c, key)

\* useKeyboardInput.handleKeyDown, bound in the render whose state is c.
handleKeyDown(s, c, event) ==
  IF ~Enabled(c) THEN s
  ELSE IF event.key = "Tab" \/ event.key = "F5" THEN s
  ELSE IF event.key = "Backspace" THEN onBackspace(s, c)
  ELSE IF event.key \in ModifierKeys THEN s
  ELSE IF event.ctrlKey \/ event.metaKey \/ event.altKey THEN s
  ELSE LET s1 == IF Len(event.key) = 1 THEN onKeyPress(s, c, event.key) ELSE s
       IN IF event.key = "Enter" THEN onKeyPress(s1, c, "\n") ELSE s1

\* start without its guard.
timerStart_NoGuard(s) == [s EXCEPT !.isRunning = TRUE]

\* useTimer.start
timerStart(s) ==
  IF s.isRunning \/ s.isFinished THEN s ELSE [s EXCEPT !.isRunning = TRUE]

\* clearInterval(intervalRef.current)
ClearInterval(s) ==
  [s EXCEPT !.intervals = IF s.intervalRef = "live" THEN @ - 1 ELSE @,
            !.intervalRef = IF @ = "live" THEN "cleared" ELSE @]

\* pause that forgets the interval without clearing it.
timerPause_NoClear(s) ==
  [s EXCEPT !.isRunning = FALSE, !.intervalRef = "null"]

\* useTimer.pause
timerPause(s) ==
  IF s.intervalRef # "null"
  THEN [ClearInterval(s) EXCEPT !.isRunning = FALSE, !.intervalRef = "null"]
  ELSE [s EXCEPT !.isRunning = FALSE]

\* useTimer.reset
timerReset(s, newTime) ==
  [timerPause(s) EXCEPT !.timeRemaining = newTime, !.isFinished = FALSE]

\* The interval callback without the branch that stops at zero.
timerTick_NoStop(s) == [s EXCEPT !.timeRemaining = @ - 1]

\* The interval callback that stops one tick late (< for <=).
timerTick_LateFinish(s) ==
  IF s.timeRemaining < 1
  THEN [s EXCEPT !.timeRemaining = 0, !.isRunning = FALSE, !.isFinished = TRUE]
  ELSE [s EXCEPT !.timeRemaining = @ - 1]

\* The interval callback of useTimer's tick effect.
timerTick(s) ==
  IF s.timeRemaining <= 1
  THEN [s EXCEPT !.timeRemaining = 0, !.isRunning = FALSE, !.isFinished = TRUE]
  ELSE [s EXCEPT !.timeRemaining = @ - 1]

\* useTimer's tick effect of the render whose state is s: when isRunning
\* or timeRemaining changed, the cleanup of the previous run, then a new
\* interval while the timer runs.
TickEffect(s) ==
  IF s.tickDeps = <<s.isRunning, s.timeRemaining>> THEN s
  ELSE LET cleaned == [ClearInterval(s) EXCEPT
                         !.tickDeps = <<s.isRunning, s.timeRemaining>>]
       IN IF s.isRunning /\ s.timeRemaining > 0
          THEN [cleaned EXCEPT !.intervals = @ + 1, !.intervalRef = "live"]
          ELSE cleaned

\* The start-timer effect without the wait for the first keystroke.
StartTimerEffect_OnMount(s) ==
  IF s.mode = "test" /\ ~s.isRunning /\ ~s.isFinished
  THEN timerStart(s) ELSE s

\* TestMode: the start-timer effect of the render whose state is s.
StartTimerEffect(s) ==
  IF s.mode = "test" /\ s.hasStarted /\ ~s.isRunning /\ ~s.isFinished
  THEN timerStart(s) ELSE s

\* array.slice(0, n)
Take(seq, n) == IF Len(seq) <= n THEN seq ELSE SubSeq(seq, 1, n)

\* ADD_HISTORY without the slice.
addHistory_Unbounded(s, session) ==
  [s EXCEPT !.history = <<session>> \o @]

\* appReducer, ADD_HISTORY
addHistory(s, session) ==
  [s EXCEPT !.history = Take(<<session>> \o @, HISTORY_LIMIT)]

\* The record TestMode saves (timestamp, difficulty and exerciseId left
\* out).
TestRecord(s, duration) ==
  [mode |-> "test", wpm |-> wpm(s), accuracy |-> accuracy(s),
   totalChars |-> totalTyped(s), errors |-> s.errors, duration |-> duration]

\* The save-session effect without its showResults guard.
SaveSessionEffect_NoGuard(s) ==
  IF s.mode = "test" /\ (s.isFinished \/ s.isComplete) /\ s.hasStarted
  THEN [addHistory(s, TestRecord(s, IF s.isFinished
                                    THEN TEST_DURATION * 1000
                                    ELSE s.elapsedTime))
          EXCEPT !.showResults = TRUE]
  ELSE s

\* The save-session effect that always records the elapsed time.
SaveSessionEffect_AlwaysElapsed(s) ==
  IF s.mode = "test" /\ (s.isFinished \/ s.isComplete) /\ s.hasStarted
     /\ ~s.showResults
  THEN [addHistory(s, TestRecord(s, s.elapsedTime))
          EXCEPT !.showResults = TRUE]
  ELSE s

\* TestMode: the save-session effect of the render whose state is s.
SaveSessionEffect(s) ==
  IF s.mode = "test" /\ (s.isFinished \/ s.isComplete) /\ s.hasStarted
     /\ ~s.showResults
  THEN [addHistory(s, TestRecord(s, IF s.isFinished
                                    THEN TEST_DURATION * 1000
                                    ELSE s.elapsedTime))
          EXCEPT !.showResults = TRUE]
  ELSE s

\* TestMode: the elapsedTime given to Results.
resultsElapsedTime(s) ==
  IF s.isFinished THEN TEST_DURATION * 1000 ELSE s.elapsedTime

\* The record LearningMode saves (timestamp, difficulty and exerciseId left
\* out).
LearningRecord(s) ==
  [mode |-> "learning", wpm |-> wpm(s), accuracy |-> accuracy(s),
   totalChars |-> totalTyped(s), errors |-> s.errors]

\* LearningMode: the save-session effect of the render whose state is s.
\* Its dependency list holds the actions object, which AppProvider builds
\* anew in every render, so the effect runs after every render that follows
\* a dispatch, its own dispatch included.
LearningSaveEffect(s) ==
  IF s.mode = "learning" /\ s.isComplete /\ totalTyped(s) > 0
  THEN addHistory(s, LearningRecord(s))
  ELSE s

\* The effects of one commit, in declaration order.
Effects(s) ==
  LearningSaveEffect(SaveSessionEffect(StartTimerEffect(TickEffect(s))))

\* Re-render until no effect updates the state.
RECURSIVE Flush(_)
Flush(s) == LET after == Effects(s) IN IF after = s THEN s ELSE Flush(after)

\* The render a handler causes: one that updates nothing causes none, and
\* no effect runs.
Rerender(now, after) == IF after = now THEN now ELSE Flush(after)

\* useTimer alone: re-render until its tick effect has run.
RECURSIVE TimerFlush(_)
TimerFlush(s) ==
  LET after == TickEffect(s) IN IF after = s THEN s ELSE TimerFlush(after)

\* The elapsed-time interval that is kept after completion.
ElapsedIntervalLive_AfterComplete(s) == s.hasStarted

\* useTypingSession's elapsed-time effect: the interval exists in the
\* renders with hasStarted && !isComplete.
ElapsedIntervalLive(s) == s.hasStarted /\ ~s.isComplete

\* The interval callback of useTypingSession's elapsed-time effect.
sampleElapsed(s) ==
  IF s.startTime # NullTime
  THEN [s EXCEPT !.elapsedTime = s.clock - s.startTime]
  ELSE s

\* SAMPLE_MS milliseconds pass; the elapsed-time interval, if there is one,
\* fires.
timePasses(s) ==
  LET later == [s EXCEPT !.clock = @ + SAMPLE_MS]
  IN IF ElapsedIntervalLive(s) THEN sampleElapsed(later) ELSE later

\* What the last step delivered.
KeyClass(event) ==
  IF event.key = "Backspace" THEN "Backspace"
  ELSE IF event.ctrlKey \/ event.metaKey \/ event.altKey THEN "shortcut"
  ELSE IF event.key = "Enter" THEN "Enter"
  ELSE IF Len(event.key) = 1 THEN "char"
  ELSE "other"

\* The handler calls handleKeyDown, bound in the render whose state is c,
\* makes for event, in order.
Calls(c, event) ==
  IF ~Enabled(c) THEN <<>>
  ELSE IF event.key = "Tab" \/ event.key = "F5" THEN <<>>
  ELSE IF event.key = "Backspace"
       THEN IF c.mode = "learning"
            THEN <<[fn |-> "handleBackspace", key |-> ""]>> ELSE <<>>
  ELSE IF event.key \in ModifierKeys THEN <<>>
  ELSE IF event.ctrlKey \/ event.metaKey \/ event.altKey THEN <<>>
  ELSE (IF Len(event.key) = 1
        THEN <<[fn |-> "handleKeyPress", key |-> event.key]>> ELSE <<>>)
       \o (IF event.key = "Enter"
           THEN <<[fn |-> "handleKeyPress", key |-> "\n"]>> ELSE <<>>)

(***************************************************************************)
(* JavaScript values, tagged with their type, and JSON text.               *)
(***************************************************************************)

Undefined == [t |-> "undefined", v |-> 0]
Null == [t |-> "null", v |-> 0]
Bool(b) == [t |-> "bool", v |-> b]
Num(n) == [t |-> "num", v |-> n]
Str(s) == [t |-> "str", v |-> s]
List(seq) == [t |-> "list", v |-> seq]
Obj(f) == [t |-> "obj", v |-> f]
NoProps == [k \in {} |-> Undefined]

\* ToBoolean: what  if (x)  and  x && ...  and  x || ...  test.
Truthy(x) ==
  CASE x.t \in {"undefined", "null"} -> FALSE
    [] x.t = "bool" -> x.v
    [] x.t = "num" -> x.v # 0
    [] x.t = "str" -> x.v # ""
    [] OTHER -> TRUE

\* typeof x === 'object'
TypeofObject(x) == x.t \in {"null", "list", "obj"}

\* Array.isArray(x)
IsArray(x) == x.t = "list"

\* x[key] for an object or an array and a property name that is no index.
Get(x, key) ==
  IF x.t = "obj" /\ key \in DOMAIN x.v THEN x.v[key] ELSE Undefined

\* x || y
OrElse(x, y) == IF Truthy(x) THEN x ELSE y

\* The document JSON.stringify writes for a value: a property whose value is
\* undefined is left out, an undefined array element becomes null.
RECURSIVE Encode(_)
Encode(x) ==
  CASE x.t = "list" ->
         List([i \in 1..Len(x.v) |->
                 IF x.v[i].t = "undefined" THEN Null ELSE Encode(x.v[i])])
    [] x.t = "obj" ->
         Obj([k \in {j \in DOMAIN x.v : x.v[j].t # "undefined"} |->
                 Encode(x.v[k])])
    [] OTHER -> x

\* A string: well-formed JSON text of a document, or text JSON.parse rejects.
JsonText(doc) == [wellFormed |-> TRUE, doc |-> doc]
Malformed == [wellFormed |-> FALSE, doc |-> Null]

\* JSON.stringify(value, null, 2)
JSONstringify(x) == JsonText(Encode(x))

\* exportProgress that files the version tag under history.
exportProgress_TagInHistory(data) ==
  JSONstringify(Obj([k \in DOMAIN data.v \cup {"exportedAt"} |->
     IF k = "exportedAt" THEN Str("2026-01-01T00:00:00.000Z")
     ELSE IF k = "history" /\ data.v[k].t = "list"
          THEN List(<<Str("1.0")>> \o data.v[k].v)
     ELSE data.v[k]]))

\* storage.js exportProgress: the data with exportedAt and version added.
exportProgress(data) ==
  JSONstringify(Obj([k \in DOMAIN data.v \cup {"exportedAt", "version"} |->
     IF k = "exportedAt" THEN Str("2026-01-01T00:00:00.000Z")
     ELSE IF k = "version" THEN Str("1.0")
     ELSE data.v[k]]))

\* importProgress that returns the fields as parsed, without || [] and
\* || {}.
importProgress_NoDefaults(jsonString) ==
  IF ~jsonString.wellFormed THEN Null
  ELSE LET data == jsonString.doc
       IN IF Truthy(data) /\ TypeofObject(data)
          THEN IF Truthy(Get(data, "history")) /\ ~IsArray(Get(data, "history"))
               THEN Null
               ELSE IF /\ Truthy(Get(data, "mistypedKeys"))
                       /\ ~TypeofObject(Get(data, "mistypedKeys"))
               THEN Null
               ELSE Obj([k \in {"history", "mistypedKeys"} |->
                          Get(data, k)])
          ELSE Null

\* storage.js importProgress; JSON.parse throws on malformed text and the
\* catch block returns null.
importProgress(jsonString) ==
  IF ~jsonString.wellFormed THEN Null
  ELSE LET data == jsonString.doc
       IN IF Truthy(data) /\ TypeofObject(data)
          THEN IF Truthy(Get(data, "history")) /\ ~IsArray(Get(data, "history"))
               THEN Null
               ELSE IF /\ Truthy(Get(data, "mistypedKeys"))
                       /\ ~TypeofObject(Get(data, "mistypedKeys"))
               THEN Null
               ELSE Obj([k \in {"history", "mistypedKeys"} |->
                          IF k = "history"
                          THEN OrElse(Get(data, "history"), List(<<>>))
                          ELSE OrElse(Get(data, "mistypedKeys"), Obj(NoProps))])
          ELSE Null

\* AppContext actions.exportData
exportData(s) ==
  exportProgress(Obj([k \in {"history", "mistypedKeys"} |->
                        IF k = "history" THEN s.history ELSE s.mistypedKeys]))

\* What actions.importData returns.
importDataReturns(jsonString) == Truthy(importProgress(jsonString))

\* AppContext actions.importData with the SET_HISTORY and SET_MISTYPED_KEYS
\* reducers.
importData(s, jsonString) ==
  LET data == importProgress(jsonString)
  IN IF Truthy(data)
     THEN [s EXCEPT
             !.history = IF Truthy(Get(data, "history"))
                         THEN Get(data, "history") ELSE @,
             !.mistypedKeys = IF Truthy(Get(data, "mistypedKeys"))
                              THEN Get(data, "mistypedKeys") ELSE @]
     ELSE s

(***************************************************************************)
(* KeyboardVisualization2D: the layout, the character table built from it  *)
(* when the module is loaded, and the lookups of the component.            *)
(***************************************************************************)

\* null in the state of the keyboard component and in what its lookups
\* return.
None == "null"

\* Finger
Finger == {"L_PINKY", "L_RING", "L_MIDDLE", "L_INDEX", "L_THUMB",
           "R_THUMB", "R_INDEX", "R_MIDDLE", "R_RING", "R_PINKY"}

\* Characters of the layout that a string of this module cannot hold, each
\* written with another single character that the layout does not use:
\* U+0060 of the first key of the number row, and the key caps U+232B,
\* U+2318 and U+2630.
Backquote == "´"
EraseCap == "⇦"
CommandCap == "⇨"
MenuCap == "⇩"

\* One entry of keyboardLayout (width, display and id left out): a key with
\* a shifted character, a home-row key, a key without shifted character.
KeyData(key, shift, finger) ==
  [key |-> key, shift |-> shift, finger |-> finger, isHome |-> FALSE]
HomeKey(key, shift, finger) ==
  [key |-> key, shift |-> shift, finger |-> finger, isHome |-> TRUE]
BareKey(key, finger) ==
  [key |-> key, shift |-> UNDEFINED, finger |-> finger, isHome |-> FALSE]

keyboardLayout ==
  << << KeyData(Backquote, "~", "L_PINKY"), KeyData("1", "!", "L_PINKY"),
        KeyData("2", "@", "L_RING"), KeyData("3", "#", "L_MIDDLE"),
        KeyData("4", "$", "L_INDEX"), KeyData("5", "%", "L_INDEX"),
        KeyData("6", "^", "R_INDEX"), KeyData("7", "&", "R_INDEX"),
        KeyData("8", "*", "R_MIDDLE"), KeyData("9", "(", "R_RING"),
        KeyData("0", ")", "R_PINKY"), KeyData("-", "_", "R_PINKY"),
        KeyData("=", "+", "R_PINKY"), BareKey(EraseCap, "R_PINKY") >>,
     << BareKey("⇥", "L_PINKY"), KeyData("q", "Q", "L_PINKY"),
        KeyData("w", "W", "L_RING"), KeyData("e", "E", "L_MIDDLE"),
        KeyData("r", "R", "L_INDEX"), KeyData("t", "T", "L_INDEX"),
        KeyData("y", "Y", "R_INDEX"), KeyData("u", "U", "R_INDEX"),
        KeyData("i", "I", "R_MIDDLE"), KeyData("o", "O", "R_RING"),
        KeyData("p", "P", "R_PINKY"), KeyData("[", "{", "R_PINKY"),
        KeyData("]", "}", "R_PINKY"), KeyData("\\", "|", "R_PINKY") >>,
     << BareKey("⇪", "L_PINKY"), HomeKey("a", "A", "L_PINKY"),
        HomeKey("s", "S", "L_RING"), HomeKey("d", "D", "L_MIDDLE"),
        HomeKey("f", "F", "L_INDEX"), KeyData("g", "G", "L_INDEX"),
        KeyData("h", "H", "R_INDEX"), HomeKey("j", "J", "R_INDEX"),
        HomeKey("k", "K", "R_MIDDLE"), HomeKey("l", "L", "R_RING"),
        HomeKey(";", ":", "R_PINKY"), KeyData("'", "\"", "R_PINKY"),
        BareKey("↵", "R_PINKY") >>,
     << BareKey("⇧", "L_PINKY"), KeyData("z", "Z", "L_PINKY"),
        KeyData("x", "X", "L_RING"), KeyData("c", "C", "L_MIDDLE"),
        KeyData("v", "V", "L_INDEX"), KeyData("b", "B", "L_INDEX"),
        KeyData("n", "N", "R_INDEX"), KeyData("m", "M", "R_INDEX"),
        KeyData(",", "<", "R_MIDDLE"), KeyData(".", ">", "R_RING"),
        KeyData("/", "?", "R_PINKY"), BareKey("⇧", "R_PINKY") >>,
     << BareKey("Ctrl", "L_PINKY"), BareKey(CommandCap, "L_THUMB"),
        BareKey("Alt", "L_THUMB"), BareKey(" ", "R_THUMB"),
        BareKey("Alt", "R_THUMB"), BareKey(CommandCap, "R_THUMB"),
        BareKey(MenuCap, "R_PINKY"), BareKey("Ctrl", "R_PINKY") >> >>

\* The key caps left out of the table.
Glyphs == {"⇥", "⇪", "⇧", EraseCap, "↵", CommandCap, MenuCap}

\* { ...keyData, row: rowIndex } and { ...keyData, row: rowIndex,
\* needsShift: true }
KeyInfo(keyData, rowIndex, needsShift) ==
  [key |-> keyData.key, shift |-> keyData.shift, finger |-> keyData.finger,
   isHome |-> keyData.isHome, row |-> rowIndex, needsShift |-> needsShift]

\* One charToKeyInfo.set(key, value)
MapSet(key, value) == <<[key |-> key, value |-> value]>>

\* The body of the build loop that binds no shifted character.
bindKey_Unshifted(keyData, rowIndex) ==
  (IF Len(keyData.key) = 1 /\ keyData.key \notin Glyphs
   THEN MapSet(keyData.key, KeyInfo(keyData, rowIndex, FALSE))
   ELSE <<>>)
  \o (IF keyData.key = " "
      THEN MapSet(" ", KeyInfo(keyData, rowIndex, FALSE)) ELSE <<>>)

\* The body of the loop that builds charToKeyInfo, for one key of a row:
\* the calls of set it makes, in order.
bindKey(keyData, rowIndex) ==
  (IF Len(keyData.key) = 1 /\ keyData.key \notin Glyphs
   THEN MapSet(keyData.key, KeyInfo(keyData, rowIndex, FALSE))
        \o (IF keyData.shift # UNDEFINED
            THEN MapSet(keyData.shift, KeyInfo(keyData, rowIndex, TRUE))
            ELSE <<>>)
   ELSE <<>>)
  \o (IF keyData.key = " "
      THEN MapSet(" ", KeyInfo(keyData, rowIndex, FALSE)) ELSE <<>>)

\* row.forEach from the key at i, and keyboardLayout.forEach from the row
\* at rowIndex, which counts from 0 as in the source: the calls of set.
RECURSIVE bindRow(_, _, _)
bindRow(row, rowIndex, i) ==
  IF i > Len(row) THEN <<>>
  ELSE bindKey(row[i], rowIndex) \o bindRow(row, rowIndex, i + 1)

RECURSIVE bindFrom(_)
bindFrom(rowIndex) ==
  IF rowIndex >= Len(keyboardLayout) THEN <<>>
  ELSE bindRow(keyboardLayout[rowIndex + 1], rowIndex, 1)
       \o bindFrom(rowIndex + 1)

\* A Map after the given calls of set: each key holds the value of the
\* last call made for it.
MapAfter(sets) ==
  [key \in {sets[j].key : j \in 1..Len(sets)} |->
     sets[CHOOSE j \in 1..Len(sets) :
            /\ sets[j].key = key
            /\ \A k \in (j + 1)..Len(sets) : sets[k].key # key].value]

\* Neither undefined nor a key info: what get returns for a missing key
\* and the null getKeyInfo makes of it.
NoKeyInfo == [key |-> None]

\* Map.prototype.get
MapGet(map, key) == IF key \in DOMAIN map THEN map[key] ELSE NoKeyInfo

\* charToKeyInfo once the module is loaded.
charToKeyInfo == MapAfter(bindFrom(0))

\* getKeyInfo: charToKeyInfo.get(char) || null
getKeyInfo(table, char) == MapGet(table, char)

\* The handle KeyboardVisualization2D gives its parent.
highlightNextKey(kb, table, char) ==
  IF char = "" THEN [kb EXCEPT !.hintedKey = None, !.hintedFinger = None]
  ELSE LET keyInfo == getKeyInfo(table, char)
       IN IF keyInfo # NoKeyInfo
          THEN [kb EXCEPT !.hintedKey = char, !.hintedFinger = keyInfo.finger]
          ELSE [kb EXCEPT !.hintedKey = None, !.hintedFinger = None]

pressKey(kb, table, char) ==
  LET keyInfo == getKeyInfo(table, char)
  IN IF keyInfo # NoKeyInfo
     THEN [kb EXCEPT !.activeKey = char, !.pressedFinger = keyInfo.finger]
     ELSE kb

releaseKey(kb) == [kb EXCEPT !.activeKey = None, !.pressedFinger = None]

keyboardReset(kb) ==
  [kb EXCEPT !.activeKey = None, !.hintedKey = None, !.hintedFinger = None,
             !.pressedFinger = None]

getFingerForChar(table, char) ==
  LET keyInfo == getKeyInfo(table, char)
  IN IF keyInfo # NoKeyInfo THEN keyInfo.finger ELSE None

\* useState(null) four times; nothing looked up yet.
KeyboardMounted ==
  [activeKey |-> None, hintedKey |-> None, hintedFinger |-> None,
   pressedFinger |-> None, char |-> "", finger |-> None]

\* The dependencies of the update-stats effect of useTypingSession and of
\* the save-session effect of LearningMode in the first render, the actions
\* object apart (state.difficulty and the exercise id do not change).
EffectsMounted ==
  [statsDeps |-> <<0, 1000, 0, 0, 0, FALSE>>,
   saveDeps |-> <<FALSE, 0, 0, 1000, 0>>,
   dispatched |-> FALSE, passes |-> 0]

\* No keydown event has been observed.
NoneDelivered == [event |-> Plain("Unidentified"), calls |-> <<>>]

\* No backspace is being followed.
NoUndo == [phase |-> "none", typedChars |-> <<>>, correctCount |-> 0,
           errors |-> 0, currentIndex |-> 0]

\* The durations a timer is created or reset with.
Durations == 1..TEST_DURATION

\* The timer as the last call found it.
TimerNow == [isRunning |-> isRunning, isFinished |-> isFinished,
             timeRemaining |-> timeRemaining, intervals |-> intervals]

\* A run that begins: a timer created or reset with newTime.
NewRun(newTime, prev) ==
  [duration |-> newTime, ticks |-> 0, finishes |-> 0, prev |-> prev]

\* The run after a step of the given kind.
RunAfter(kind, newTime, prev) ==
  LET base == IF kind = "reset" THEN NewRun(newTime, prev)
              ELSE [run EXCEPT !.prev = prev]
  IN [base EXCEPT
        !.ticks = IF kind = "tick" THEN @ + 1 ELSE @,
        !.finishes = IF ~isFinished /\ isFinished' THEN @ + 1 ELSE @]

RenderedWith(texts, durations, savedHistory, savedKeys) ==
  /\ mode \in Modes
  /\ text \in texts
  /\ currentIndex = 0
  /\ typedChars = <<>>
  /\ hasStarted = FALSE
  /\ isComplete = FALSE
  /\ errors = 0
  /\ correctCount = 0
  /\ mistypedKeys = savedKeys
  /\ timeRemaining \in durations
  /\ isRunning = FALSE
  /\ isFinished = FALSE
  /\ showResults = FALSE
  /\ intervalRef = "null"
  /\ intervals = 0
  /\ elapsedTime = 0
  /\ history = savedHistory
  /\ run = NewRun(timeRemaining, TimerNow)
  /\ lastEvent = "init"
  /\ delivered = NoneDelivered
  /\ imported = [jsonString |-> Malformed, returned |-> FALSE]
  /\ calc = Measured(0, 0, 0)
  /\ clock = 0
  /\ startTime = NullTime
  /\ keyboard = KeyboardMounted
  /\ currentStats = InitialStats
  /\ effects = EffectsMounted
  /\ undo = NoUndo

\* The first render with nothing saved.
RenderedAt(texts, durations) ==
  RenderedWith(texts, durations, <<>>, EmptyTally)

Rendered(texts) == RenderedAt(texts, {TEST_DURATION})

Init == Rendered(Texts)
HookInit == Rendered(HookTexts)

(***************************************************************************)
(* The application: a mounted LearningMode or TestMode screen.             *)
(***************************************************************************)

\* A keydown event reaches the window.  A new session is started only
\* while the history is empty: the sessions that follow a recorded one are
\* those of TestSpec.
KeyDownStep(event) ==
  /\ Mistakes(mistypedKeys) < MaxMistakes
  /\ hasStarted \/ history = <<>>
  /\ \E now \in {St} :
       \E next \in {Rerender(now, handleKeyDown(now, now, event))} : Commit(next)
  /\ lastEvent' = KeyClass(event)
  /\ run' = RunAfter("key", 0, run.prev)

\* The one-second interval of a running timer fires.
TickStep ==
  /\ mode = "test"
  /\ intervals > 0
  /\ \E now \in {St} :
       \E next \in {Rerender(now, timerTick(now))} : Commit(next)
  /\ lastEvent' = "tick"
  /\ run' = RunAfter("tick", 0, run.prev)

\* handleRestart: the button in LearningMode's header and on both Results
\* screens.
RestartStep ==
  /\ mode = "learning" \/ showResults
  /\ \E now \in {St} :
       \E next \in {Rerender(now, IF mode = "learning" THEN reset(now)
                           ELSE [timerReset(reset(now), TEST_DURATION)
                                   EXCEPT !.showResults = FALSE])} :
         Commit(next)
  /\ lastEvent' = "restart"
  /\ run' = IF mode = "test" THEN RunAfter("reset", TEST_DURATION, run.prev)
            ELSE run

KeyDown(event) == KeyDownStep(event) /\ UNCHANGED undo
Tick == TickStep /\ UNCHANGED undo
Restart == RestartStep /\ UNCHANGED undo

Next ==
  \/ \E event \in KeyEvents : KeyDown(event)
  \/ Tick
  \/ Restart

Spec == Init /\ [][Next]_vars

(***************************************************************************)
(* The hook alone: useTypingSession rendered by a caller that invokes the  *)
(* returned handleKeyPress, handleBackspace and reset in any order, each   *)
(* on the latest render.                                                   *)
(***************************************************************************)

CallKeyPress(key) ==
  /\ Mistakes(mistypedKeys) < MaxMistakes
  /\ \E now \in {St} :
       \E next \in {handleKeyPress(now, now, key)} : Commit(next)
  /\ lastEvent' = "handleKeyPress"
  /\ UNCHANGED <<undo, run>>

CallBackspace ==
  /\ \E now \in {St} :
       \E next \in {handleBackspace(now, now)} : Commit(next)
  /\ lastEvent' = "handleBackspace"
  /\ UNCHANGED <<undo, run>>

CallReset ==
  /\ \E now \in {St} :
       \E next \in {reset(now)} : Commit(next)
  /\ lastEvent' = "reset"
  /\ UNCHANGED <<undo, run>>

HookNext ==
  \/ \E key \in TypedKeys : CallKeyPress(key)
  \/ CallBackspace
  \/ CallReset

HookSpec == HookInit /\ [][HookNext]_vars

(***************************************************************************)
(* The LearningMode screen with the session before each backspace kept     *)
(* while the next event retypes the removed character and typing goes on.  *)
(***************************************************************************)

Snapshot(phase) ==
  [phase |-> phase, typedChars |-> typedChars, correctCount |-> correctCount,
   errors |-> errors, currentIndex |-> currentIndex]

FollowKeyDown(event) ==
  /\ KeyDownStep(event)
  /\ undo' =
       IF Len(typedChars') = Len(typedChars) - 1 THEN Snapshot("erased")
       ELSE IF /\ undo.phase = "erased"
               /\ Len(typedChars') = Len(typedChars) + 1
               /\ typedChars'[Len(typedChars')].char =
                    undo.typedChars[Len(undo.typedChars)].char
            THEN [undo EXCEPT !.phase = "retyped"]
       ELSE IF /\ undo.phase \in {"retyped", "resumed"}
               /\ Len(typedChars') = Len(typedChars) + 1
            THEN [undo EXCEPT !.phase = "resumed"]
       ELSE NoUndo

FollowRestart == RestartStep /\ undo' = NoUndo

CorrectionInit == Init /\ mode = "learning"

CorrectionNext ==
  \/ \E event \in KeyEvents : FollowKeyDown(event)
  \/ FollowRestart

CorrectionSpec == CorrectionInit /\ [][CorrectionNext]_vars

(***************************************************************************)
(* The window listener when two keydown events are dispatched before the   *)
(* render that follows the first: the listener is replaced only by the     *)
(* effect of the next render, so both calls run in the same closure.       *)
(***************************************************************************)

\* The first event of a burst is a keypress; the second is a keypress or
\* Backspace.
BurstKeyPresses == {Plain(k) : k \in {"a", "b", "x", "Enter"}}
BurstEvents == BurstKeyPresses \cup {Plain("Backspace")}

BurstClass(e1, e2) ==
  IF KeyClass(e2) = "Backspace" THEN "keypress-backspace"
  ELSE "keypress-keypress"

\* One burst in a session: the entries do not outgrow the text by more
\* than one.
Burst(e1, e2) ==
  /\ Mistakes(mistypedKeys) < MaxMistakes
  /\ hasStarted \/ history = <<>>
  /\ Len(typedChars) = currentIndex
  /\ \E now \in {St} :
       \E next \in {Rerender(now, handleKeyDown(handleKeyDown(now, now, e1),
                                               now, e2))} :
         Commit(next)
  /\ lastEvent' = BurstClass(e1, e2)
  /\ run' = RunAfter("key", 0, run.prev)
  /\ UNCHANGED undo

BurstNext ==
  \/ \E event \in KeyEvents : KeyDown(event)
  \/ \E e1 \in BurstKeyPresses, e2 \in BurstEvents : Burst(e1, e2)
  \/ Tick
  \/ Restart

BurstSpec == Init /\ [][BurstNext]_vars

(***************************************************************************)
(* The TestMode screen over several sessions, with the clock: the          *)
(* elapsed-time interval of the session fires between the other events.    *)
(***************************************************************************)

\* A key that can match, one that never does, and Backspace.
TestEvents == {Plain(k) : k \in {"a", "x", "Backspace"}}

TestKeyDown(event) ==
  /\ Mistakes(mistypedKeys) < MaxMistakes
  /\ hasStarted \/ Len(history) < MaxHistory
  /\ \E now \in {St} :
       \E next \in {Rerender(now, handleKeyDown(now, now, event))} : Commit(next)
  /\ lastEvent' = KeyClass(event)
  /\ run' = RunAfter("key", 0, run.prev)
  /\ UNCHANGED undo

Elapsed ==
  /\ ElapsedIntervalLive(St)
  /\ elapsedTime < MaxSamples * SAMPLE_MS
  /\ \E now \in {St} :
       \E next \in {Rerender(now, timePasses(now))} : Commit(next)
  /\ lastEvent' = "sample"
  /\ run' = RunAfter("sample", 0, run.prev)
  /\ UNCHANGED undo

TestInit == Init /\ mode = "test"

TestNext ==
  \/ \E event \in TestEvents : TestKeyDown(event)
  \/ Tick
  \/ Restart
  \/ Elapsed

TestSpec == TestInit /\ [][TestNext]_vars

(***************************************************************************)
(* The TestMode screen when a keydown event follows a tick of the          *)
(* countdown before the effects of the tick's render have run: the window  *)
(* listener is still the handleKeyDown of the render before the tick.  The *)
(* effects of the tick's render run before the key's updates are rendered. *)
(***************************************************************************)

TickThenKey(event) ==
  /\ mode = "test"
  /\ intervals > 0
  /\ Mistakes(mistypedKeys) < MaxMistakes
  /\ \E now \in {St} :
       \E ticked \in {Rerender(now, timerTick(now))} :
         \E next \in {Rerender(ticked, handleKeyDown(ticked, now, event))} :
           Commit(next)
  /\ lastEvent' = "tick-key"
  /\ run' = RunAfter("tick", 0, run.prev)
  /\ UNCHANGED undo

LateKeyNext ==
  \/ \E event \in TestEvents : TestKeyDown(event)
  \/ Tick
  \/ Restart
  \/ Elapsed
  \/ \E event \in TestEvents : TickThenKey(event)

LateKeySpec == TestInit /\ [][LateKeyNext]_vars

(***************************************************************************)
(* The history store alone: actions.addHistory called with one session     *)
(* record after the other, a millisecond apart, until the store has been   *)
(* full for a few calls.                                                   *)
(***************************************************************************)

\* Calls of addHistory made to a full store.
MaxOverflow == 2

\* The session record made at the given time (the statistics left out).
SessionAt(m, time) == [mode |-> m, timestamp |-> time]

AddHistory ==
  /\ clock < HISTORY_LIMIT + MaxOverflow
  /\ \E now \in {St} :
       Commit(addHistory([now EXCEPT !.clock = @ + 1],
                         SessionAt(now.mode, now.clock)))
  /\ lastEvent' = "addHistory"
  /\ UNCHANGED <<undo, run>>

HistoryInit == Rendered({<<"a">>})

HistoryNext == AddHistory

HistorySpec == HistoryInit /\ [][HistoryNext]_vars

(***************************************************************************)
(* The keyboard listener observed: each keydown event with the calls       *)
(* handleKeyDown makes for it.                                             *)
(***************************************************************************)

\* A key with exactly one of Ctrl, Meta, Alt held.
Chord(k, f) == [key |-> k, ctrlKey |-> f = "c", metaKey |-> f = "m",
                altKey |-> f = "a"]

InputEvents ==
  {Plain(k) : k \in {"a", "Enter", "Backspace", "Tab"}
                      \cup ModifierKeys} \cup
  {Chord(k, f) : k \in {"a", "Enter", "Backspace"}, f \in {"c", "m", "a"}}

InputKeyDown(event) ==
  /\ Mistakes(mistypedKeys) < MaxMistakes
  /\ hasStarted \/ history = <<>>
  /\ \E now \in {St} :
       \E next \in {[Rerender(now, handleKeyDown(now, now, event)) EXCEPT
                       !.delivered = [event |-> event,
                                      calls |-> Calls(now, event)]]} :
         Commit(next)
  /\ lastEvent' = KeyClass(event)
  /\ run' = RunAfter("key", 0, run.prev)
  /\ UNCHANGED undo

InputNext ==
  \/ \E event \in InputEvents : InputKeyDown(event)
  \/ Tick
  \/ Restart

InputSpec == Init /\ [][InputNext]_vars

(***************************************************************************)
(* A screen with the time passing: before the first key, during the        *)
(* session and after it.                                                   *)
(***************************************************************************)

\* The time let pass on a screen.
MaxClock == (MaxSamples + 2) * SAMPLE_MS

ClockKeyDown(event) ==
  /\ Mistakes(mistypedKeys) < MaxMistakes
  /\ hasStarted \/ history = <<>>
  /\ \E now \in {St} :
       \E next \in {Rerender(now, handleKeyDown(now, now, event))} : Commit(next)
  /\ lastEvent' = KeyClass(event)
  /\ run' = RunAfter("key", 0, run.prev)
  /\ UNCHANGED undo

TimePasses ==
  /\ clock < MaxClock
  /\ \E now \in {St} :
       \E next \in {Rerender(now, timePasses(now))} : Commit(next)
  /\ lastEvent' = IF ElapsedIntervalLive(St) THEN "sample" ELSE "wait"
  /\ run' = RunAfter("sample", 0, run.prev)
  /\ UNCHANGED undo

ClockNext ==
  \/ \E event \in TestEvents : ClockKeyDown(event)
  \/ TimePasses
  \/ Tick
  \/ Restart

ClockSpec == Init /\ [][ClockNext]_vars

(***************************************************************************)
(* A screen whose session is reset on its own: the reset returned by       *)
(* useTypingSession called without the screen's handleRestart around it.   *)
(***************************************************************************)

ResetCall ==
  /\ \E now \in {St} :
       \E next \in {Rerender(now, reset(now))} : Commit(next)
  /\ lastEvent' = "reset"
  /\ run' = RunAfter("call", 0, run.prev)
  /\ UNCHANGED undo

ResetNext ==
  \/ \E event \in TestEvents : ClockKeyDown(event)
  \/ TimePasses
  \/ Tick
  \/ Restart
  \/ ResetCall

ResetSpec == Init /\ [][ResetNext]_vars

\* The same screens mounted with any text, the empty text of a missing
\* exercise included.
AnyTextSpec == HookInit /\ [][ResetNext]_vars

(***************************************************************************)
(* The LearningMode screen render by render: a handler commits its state   *)
(* updates, then the effects of that commit run as one pass; a pass that   *)
(* dispatches to the store makes AppProvider render, and LearningMode with *)
(* it, and the effects of that commit are the next pass.                   *)
(***************************************************************************)

\* Effect passes followed after one event.
MaxPasses == 3

\* The payload of actions.updateStats in the render whose state is s.
LiveStats(s) ==
  [wpm |-> wpm(s), accuracy |-> accuracy(s), errors |-> s.errors,
   totalChars |-> totalTyped(s), correctChars |-> s.correctCount]

\* The dependency lists of the two effects in the render whose state is s,
\* the actions object apart.
StatsDeps(s) ==
  <<wpm(s), accuracy(s), s.errors, totalTyped(s), s.correctCount, s.hasStarted>>
SaveDeps(s) ==
  <<s.isComplete, totalTyped(s), wpm(s), accuracy(s), s.errors>>

\* AppProvider builds the actions object in every render of its own, and
\* it renders after every dispatch: the reducer returns a new state object
\* for every action type it knows.  Both effects list actions, so they are
\* due when a listed value changed or the store was dispatched to since
\* they last ran.
StatsEffectDue(s) == s.effects.dispatched \/ s.effects.statsDeps # StatsDeps(s)
SaveEffectDue(s) == s.effects.dispatched \/ s.effects.saveDeps # SaveDeps(s)
EffectsDue(s) == StatsEffectDue(s) \/ SaveEffectDue(s)

\* useTypingSession: the update-stats effect, and appReducer UPDATE_STATS.
UpdateStatsEffect(s) ==
  IF StatsEffectDue(s) /\ s.hasStarted
  THEN [s EXCEPT !.currentStats = LiveStats(s)] ELSE s

\* LearningMode: the save-session effect when it is due.
SaveEffectPass(s) == IF SaveEffectDue(s) THEN LearningSaveEffect(s) ELSE s

\* One pass of the effects of the commit whose state is s.
effectPass(s) ==
  LET stats == StatsEffectDue(s) /\ s.hasStarted
      save == SaveEffectDue(s) /\ s.isComplete /\ totalTyped(s) > 0
      after == [UpdateStatsEffect(s) EXCEPT
                  !.history = SaveEffectPass(s).history]
  IN [after EXCEPT
        !.effects = [statsDeps |-> StatsDeps(s), saveDeps |-> SaveDeps(s),
                     dispatched |-> stats \/ save,
                     passes |-> s.effects.passes + 1]]

\* The dispatches of a handler: START_SESSION at the first key,
\* UPDATE_MISTYPED_KEYS at a mistake, END_SESSION at completion.
Dispatches(now, after) ==
  \/ after.hasStarted # now.hasStarted
  \/ after.mistypedKeys # now.mistypedKeys
  \/ after.isComplete # now.isComplete

\* The commit of a handler's updates, its effects not yet run.
Committed(now, after, dispatched) ==
  [after EXCEPT !.effects.dispatched = @ \/ dispatched,
                !.effects.passes = 0]

\* Events are handled once the effects of the last commit have run.
EffectsFlushed == lastEvent \in {"init", "effects"} \/ ~EffectsDue(St)

StoreKeyDown(event) ==
  /\ EffectsFlushed
  /\ Mistakes(mistypedKeys) < MaxMistakes
  /\ hasStarted \/ history = <<>>
  /\ \E now \in {St} :
       \E after \in {handleKeyDown(now, now, event)} :
         Commit(Committed(now, after, Dispatches(now, after)))
  /\ lastEvent' = KeyClass(event)
  /\ UNCHANGED <<undo, run>>

StoreRestart ==
  /\ EffectsFlushed
  /\ \E now \in {St} : Commit(Committed(now, reset(now), TRUE))
  /\ lastEvent' = "restart"
  /\ UNCHANGED <<undo, run>>

EffectPass ==
  /\ EffectsDue(St)
  /\ effects.passes < MaxPasses
  /\ \E now \in {St} : Commit(effectPass(now))
  /\ lastEvent' = "effects"
  /\ UNCHANGED <<undo, run>>

StoreInit == Init /\ mode = "learning"

StoreNext ==
  \/ \E event \in TestEvents : StoreKeyDown(event)
  \/ StoreRestart
  \/ EffectPass

StoreSpec == StoreInit /\ [][StoreNext]_vars

(***************************************************************************)
(* The keyboard component driven through its handle by a parent that asks  *)
(* for any character.                                                      *)
(***************************************************************************)

\* Characters and key names without a binding.
Unbound == {"\n", "⇥", "⇪", "⇧", "↵", EraseCap, CommandCap, MenuCap,
            "Ctrl", "Alt", "Enter", "é"}

\* Characters looked up: every bound one and the unbound ones.
LookupChars == DOMAIN charToKeyInfo \cup Unbound

\* Characters hinted and pressed; "" is the falsy char of highlightNextKey.
HintChars == {"a", "A", "?", " ", "\n", ""}
PressChars == {"a", "A", " ", "\n"}

KeyboardCall(name, kb) ==
  /\ \E now \in {St} : Commit([now EXCEPT !.keyboard = kb])
  /\ lastEvent' = name
  /\ UNCHANGED <<undo, run>>

HighlightNextKey(char) ==
  KeyboardCall("highlightNextKey",
               highlightNextKey(keyboard, charToKeyInfo, char))

PressKey(char) ==
  KeyboardCall("pressKey", pressKey(keyboard, charToKeyInfo, char))

ReleaseKey == KeyboardCall("releaseKey", releaseKey(keyboard))

KeyboardReset == KeyboardCall("keyboardReset", keyboardReset(keyboard))

GetFingerForChar(char) ==
  KeyboardCall("getFingerForChar",
               [keyboard EXCEPT
                  !.char = char,
                  !.finger = getFingerForChar(charToKeyInfo, char)])

FingerInit == Rendered({<<"a">>}) /\ mode = "learning"

FingerNext ==
  \/ \E char \in HintChars : HighlightNextKey(char)
  \/ \E char \in PressChars : PressKey(char)
  \/ ReleaseKey
  \/ KeyboardReset
  \/ \E char \in LookupChars : GetFingerForChar(char)

FingerSpec == FingerInit /\ [][FingerNext]_vars

(***************************************************************************)
(* The statistics functions applied to arguments of every sign.            *)
(***************************************************************************)

\* Elapsed times in milliseconds: negative, zero, one millisecond, seven
\* seconds, a minute.
ElapsedTimes == {0 - 1, 0, 1, 7000, 60000}

\* Totals for a count of correct characters: none or fewer, and the count
\* with up to MaxChars incorrect characters.
TotalsFor(correctChars) ==
  {0 - 1, 0} \cup {correctChars + i : i \in 0..MaxChars}

\* calculateWPM and calculateAccuracy are called.
Measure(correctChars, totalChars, elapsedTimeMs) ==
  /\ \E now \in {St} :
       Commit([now EXCEPT
                 !.calc = Measured(correctChars, totalChars, elapsedTimeMs)])
  /\ lastEvent' = "measure"
  /\ UNCHANGED <<run, undo>>

StatsInit ==
  /\ Rendered({<<"a">>})
  /\ mode = "learning"

StatsNext ==
  \E correctChars \in 0..MaxChars, elapsedTimeMs \in ElapsedTimes :
    \E totalChars \in TotalsFor(correctChars) :
      Measure(correctChars, totalChars, elapsedTimeMs)

StatsSpec == StatsInit /\ [][StatsNext]_vars

(***************************************************************************)
(* Export and import of the progress data.  In this specification history  *)
(* and mistypedKeys hold the JavaScript values of state.history and        *)
(* state.mistypedKeys in tagged form, since an import can store a value of *)
(* any type.                                                               *)
(***************************************************************************)

\* A session record (the fields that matter to no check left out).
SessionRecord(m, e) == Obj([k \in {"mode", "errors"} |->
                             IF k = "mode" THEN Str(m) ELSE Num(e)])

\* Histories: lists of session records, newest first.
Histories ==
  {List(<<>>), List(<<SessionRecord("test", 0)>>),
   List(<<SessionRecord("learning", 1), SessionRecord("test", 0)>>)}

\* Tallies: mappings from a key to its count.
Tallies ==
  {Obj(NoProps), Obj([k \in {"a"} |-> Num(1)]),
   Obj([k \in {"a", "b"} |-> IF k = "a" THEN Num(2) ELSE Num(1)])}

\* The numbers tried as a field of an imported document.
Numbers == {Num(n) : n \in {0 - 1, 0, 1, MaxNumber}}

\* Values of the history field of an imported document; Undefined stands for
\* a document without the field.
HistoryFields ==
  Histories \cup Numbers \cup
  {Undefined, Null, Str(""), Str("abc"), Bool(TRUE),
   Obj([k \in {"a"} |-> Num(1)])}

\* Values of the mistypedKeys field of an imported document.
TallyFields ==
  Tallies \cup
  {Undefined, Null, Num(0), Num(1), Str(""), Str("abc"), List(<<>>),
   List(<<Num(1)>>), Obj([k \in {"a"} |-> Obj([j \in {"b"} |-> Num(1)])]),
   Obj([k \in {"a"} |-> Str("1")])}

\* The document with the given fields.
Document(h, m) ==
  Obj([k \in {j \in {"history", "mistypedKeys"} :
                \/ j = "history" /\ h # Undefined
                \/ j = "mistypedKeys" /\ m # Undefined} |->
         IF k = "history" THEN h ELSE m])

\* The strings given to importData.
ImportStrings ==
  {JsonText(Document(h, m)) : h \in HistoryFields, m \in TallyFields} \cup
  {Malformed, JsonText(Null), JsonText(Num(1)), JsonText(Str("abc")),
   JsonText(List(<<>>))}

\* Settings: a file is chosen and its text given to importData.
Import(jsonString) ==
  /\ \E now \in {St} :
       Commit([importData(now, jsonString) EXCEPT
                 !.imported = [jsonString |-> jsonString,
                               returned |-> importDataReturns(jsonString)]])
  /\ lastEvent' = "import"
  /\ UNCHANGED <<run, undo>>

\* The data is exported and the exported string imported again.
ExportImport ==
  /\ \E now \in {St} :
       \E jsonString \in {exportData(now)} :
         Commit([importData(now, jsonString) EXCEPT
                   !.imported = [jsonString |-> jsonString,
                                 returned |-> importDataReturns(jsonString)]])
  /\ lastEvent' = "export-import"
  /\ UNCHANGED <<run, undo>>

\* AppContext actions.clearAllData
ClearAllData ==
  /\ \E now \in {St} :
       Commit([now EXCEPT !.history = List(<<>>),
                          !.mistypedKeys = Obj(NoProps)])
  /\ lastEvent' = "clear"
  /\ UNCHANGED <<run, undo>>

ImportInit ==
  \E h \in Histories, m \in Tallies :
    /\ RenderedWith({<<"a">>}, {TEST_DURATION}, h, m)
    /\ mode = "learning"

ImportNext ==
  \/ \E jsonString \in ImportStrings : Import(jsonString)
  \/ ExportImport
  \/ ClearAllData

ImportSpec == ImportInit /\ [][ImportNext]_vars

(***************************************************************************)
(* The timer alone: useTimer rendered by a caller that invokes start,      *)
(* pause and reset in any order while the interval fires.                  *)
(***************************************************************************)

CallStart ==
  /\ \E now \in {St} :
       \E next \in {TimerFlush(timerStart(now))} : Commit(next)
  /\ lastEvent' = "start"
  /\ run' = RunAfter("start", 0, TimerNow)
  /\ UNCHANGED undo

CallPause ==
  /\ \E now \in {St} :
       \E next \in {TimerFlush(timerPause(now))} : Commit(next)
  /\ lastEvent' = "pause"
  /\ run' = RunAfter("pause", 0, TimerNow)
  /\ UNCHANGED undo

CallTimerReset(newTime) ==
  /\ \E now \in {St} :
       \E next \in {TimerFlush(timerReset(now, newTime))} : Commit(next)
  /\ lastEvent' = "reset"
  /\ run' = RunAfter("reset", newTime, TimerNow)
  /\ UNCHANGED undo

IntervalFires ==
  /\ intervals > 0
  /\ \E now \in {St} :
       \E next \in {TimerFlush(timerTick(now))} : Commit(next)
  /\ lastEvent' = "tick"
  /\ run' = RunAfter("tick", 0, TimerNow)
  /\ UNCHANGED undo

TimerInit == RenderedAt(Texts, Durations) /\ mode = "test"

TimerNext ==
  \/ CallStart
  \/ CallPause
  \/ \E newTime \in Durations : CallTimerReset(newTime)
  \/ IntervalFires

TimerSpec == TimerInit /\ [][TimerNext]_vars

\* The browser fires a live interval.
TimerFairSpec == TimerSpec /\ WF_vars(IntervalFires)

(***************************************************************************)
(* Properties.                                                             *)
(***************************************************************************)

CorrectEntries == {i \in DOMAIN typedChars : typedChars[i].correct}
WrongEntries == {i \in DOMAIN typedChars : ~typedChars[i].correct}

\* C1: after any sequence of handleKeyPress, handleBackspace and reset calls
\* the cursor is within the text, there is one entry per position before the
\* cursor, and the two counters count the correct and the incorrect entries.
C1_CountsMatchEntries ==
  /\ 0 <= currentIndex
  /\ currentIndex <= Len(text)
  /\ Len(typedChars) = currentIndex
  /\ correctCount = Cardinality(CorrectEntries)
  /\ errors = Cardinality(WrongEntries)
  /\ correctCount + errors = currentIndex

\* A backspace has removed an entry and a mistake is still held.
C1_Witness ==
  /\ lastEvent = "handleBackspace"
  /\ currentIndex = 1
  /\ errors = 1

C3_KeyPressAfterCompleteIsNoOp ==
  [][(lastEvent' = "handleKeyPress" /\ isComplete) =>
       UNCHANGED <<currentIndex, typedChars, correctCount, errors, hasStarted,
                   isComplete, mistypedKeys>>]_vars

\* handleKeyPress was called on a session that was complete and had since
\* been backspaced, and left the cursor where it was.
C3_Witness ==
  /\ lastEvent = "handleKeyPress"
  /\ isComplete
  /\ currentIndex < Len(text)

\* The characters typed so far.
TypedSoFar == [i \in DOMAIN typedChars |-> typedChars[i].char]
\* The keypress of the step was delivered to a session that accepts it.
Accepted == ~isComplete /\ ~(mode = "test" /\ (isFinished \/ showResults))
StatusOf(index) == getCharStatus(St, index)
CurrentIndices == {index \in 0..(Len(text) - 1) : StatusOf(index) = "current"}

\* C4: every accepted keypress, correct or not, moves the cursor by one, and
\* a session that has taken as many keypresses as its text is long is
\* complete.
C4_ErrorsNeverBlockCompletion ==
  /\ [](Len(typedChars) = Len(text) => isComplete)
  /\ [][(lastEvent' \in {"char", "Enter"} /\ Accepted) =>
          /\ currentIndex' = currentIndex + 1
          /\ Len(typedChars') = Len(typedChars) + 1]_vars

\* Every character of a two-character text was mistyped and the session is
\* complete.
C4_Witness ==
  /\ Len(text) = 2
  /\ errors = 2
  /\ isComplete
  /\ lastEvent = "char"

\* C5: once the text has been typed exactly the session is complete with no
\* error, accuracy 100 and the cursor at the end.
C5_ExactTypingCompletes ==
  (Len(typedChars) = Len(text) /\ TypedSoFar = text) =>
     /\ isComplete
     /\ errors = 0
     /\ accuracy(St) = 1000
     /\ currentIndex = Len(text)

\* A two-character text typed exactly.
C5_Witness ==
  /\ Len(text) = 2
  /\ TypedSoFar = text
  /\ lastEvent \in {"char", "Enter"}

\* C6: an entry is correct exactly when the typed character equals the one
\* at its position, with no case folding and with Enter typed as the
\* newline; the error count and the statuses follow the entries; the entry
\* records the key of the event.
C6_ExactMatchJudging ==
  /\ [](/\ \A i \in DOMAIN typedChars :
             /\ typedChars[i].expected = text[i]
             /\ typedChars[i].correct <=> (typedChars[i].char = text[i])
             /\ StatusOf(i - 1) = IF typedChars[i].char = text[i]
                                  THEN "correct" ELSE "incorrect"
        /\ errors = Cardinality({i \in DOMAIN typedChars :
                                   typedChars[i].char # text[i]})
        /\ (text = <<"a", "b">> /\ TypedSoFar = <<"a", "x">>) =>
              /\ isComplete
              /\ errors = 1
              /\ accuracy(St) = 500)
  /\ [][\A event \in KeyEvents :
          (KeyDownStep(event) /\ Len(typedChars') = Len(typedChars) + 1) =>
             typedChars'[Len(typedChars')].char =
               IF event.key = "Enter" THEN "\n" ELSE event.key]_vars

\* Text "ab" typed as a, x.
C6_Witness ==
  /\ text = <<"a", "b">>
  /\ TypedSoFar = <<"a", "x">>
  /\ StatusOf(0) = "correct"
  /\ StatusOf(1) = "incorrect"

\* C7: the status of a position is that of its entry before the cursor,
\* current at the cursor and pending after it; one position is current
\* until the session is complete and none afterwards.
C7_CharacterStatus ==
  /\ \A index \in 0..(Len(text) - 1) :
       StatusOf(index) =
         IF index < currentIndex
         THEN (IF typedChars[index + 1].correct THEN "correct" ELSE "incorrect")
         ELSE IF index = currentIndex THEN "current"
         ELSE "pending"
  /\ ~isComplete => Cardinality(CurrentIndices) = 1
  /\ isComplete => CurrentIndices = {}

\* A session in progress with the cursor on the second of two positions.
C7_Witness ==
  /\ Len(text) = 2
  /\ currentIndex = 1
  /\ StatusOf(0) = "incorrect"
  /\ StatusOf(1) = "current"

\* C8: in learning mode a backspace followed at once by the removed
\* character gives back the entries, counters and cursor held before the
\* backspace, so a text typed with such a correction ends as the text typed
\* directly does.
C8_BackspaceRetypeRoundTrip ==
  /\ undo.phase = "retyped" =>
       /\ typedChars = undo.typedChars
       /\ correctCount = undo.correctCount
       /\ errors = undo.errors
       /\ currentIndex = undo.currentIndex
  /\ (undo.phase \in {"retyped", "resumed"} /\ TypedSoFar = text) =>
       /\ isComplete
       /\ errors = 0
       /\ correctCount = Len(text)
       /\ currentIndex = Len(text)
       /\ \A i \in DOMAIN typedChars : typedChars[i].correct

\* Text "ab": a, backspace, a, b.
C8_Witness ==
  /\ text = <<"a", "b">>
  /\ undo.phase = "resumed"
  /\ undo.typedChars = <<[char |-> "a", expected |-> "a", correct |-> TRUE]>>
  /\ isComplete
  /\ errors = 0

\* C9: in learning mode handleBackspace at a cursor past 0 removes the last
\* entry, moves the cursor back by one and takes one from the counter of
\* the removed entry only; at cursor 0 it changes nothing; no counter is
\* negative.
C9_BackspaceRemovesLastEntry ==
  /\ [](errors >= 0 /\ correctCount >= 0)
  /\ [][(lastEvent' = "handleBackspace" /\ mode = "learning") =>
          IF currentIndex > 0
          THEN /\ typedChars' = SubSeq(typedChars, 1, Len(typedChars) - 1)
               /\ currentIndex' = currentIndex - 1
               /\ IF typedChars[Len(typedChars)].correct
                  THEN correctCount' = correctCount - 1 /\ errors' = errors
                  ELSE errors' = errors - 1 /\ correctCount' = correctCount
               /\ UNCHANGED <<hasStarted, mistypedKeys>>
          ELSE UNCHANGED <<sessionVars, mistypedKeys>>]_vars

\* A backspace has removed the second entry and left a mistyped first one.
C9_Witness ==
  /\ mode = "learning"
  /\ lastEvent = "handleBackspace"
  /\ currentIndex = 1
  /\ errors = 1
  /\ correctCount = 0

\* C10: in test mode a Backspace key event changes nothing of the session.
C10_TestModeIgnoresBackspace ==
  [][(lastEvent' = "Backspace" /\ mode = "test") =>
       UNCHANGED <<sessionVars, mistypedKeys>>]_vars

\* Backspace was pressed in a test session that is in progress.
C10_Witness ==
  /\ mode = "test"
  /\ lastEvent = "Backspace"
  /\ currentIndex > 0
  /\ ~isComplete
  /\ ~isFinished

\* The lifecycle state of the session.
Lifecycle ==
  IF isComplete THEN "Complete"
  ELSE IF hasStarted THEN "InProgress"
  ELSE "NotStarted"

\* C11: the session moves from NotStarted to InProgress on the first
\* accepted keypress and to Complete when the cursor reaches the end of the
\* text (both at once only on a one-character text); hasStarted and
\* isComplete, once true, stay true until reset; reset can be called in
\* every state and gives NotStarted; backspacing to 0 leaves InProgress.
C11_Lifecycle ==
  /\ [](isComplete => hasStarted)
  /\ [](ENABLED CallReset)
  /\ [][/\ lastEvent' = "reset" =>
             /\ Lifecycle' = "NotStarted"
             /\ currentIndex' = 0
             /\ typedChars' = <<>>
        /\ lastEvent' # "reset" =>
             /\ hasStarted => hasStarted'
             /\ isComplete => isComplete'
        /\ (~hasStarted /\ hasStarted') =>
             /\ lastEvent' = "handleKeyPress"
             /\ typedChars = <<>>
             /\ Len(typedChars') = 1
        /\ (~isComplete /\ isComplete') =>
             /\ lastEvent' = "handleKeyPress"
             /\ currentIndex' = Len(text)
        /\ (lastEvent' = "handleKeyPress" /\ ~isComplete /\ text # <<>>) =>
             /\ hasStarted'
             /\ isComplete' <=> (currentIndex' = Len(text))
        /\ (Lifecycle = "NotStarted" /\ Lifecycle' = "Complete") =>
             Len(text) = 1]_vars

\* A started learning session backspaced to the beginning.
C11_Witness ==
  /\ lastEvent = "handleBackspace"
  /\ currentIndex = 0
  /\ Lifecycle = "InProgress"

\* C12: an accepted keypress that mismatches adds one to the tally of the
\* expected character and leaves the rest of the tally; every other call
\* (correct or refused keypress, backspace, reset) leaves the tally.
C12_TallyCountsEveryMistake ==
  [][IF lastEvent' = "handleKeyPress" /\ ~isComplete /\ text # <<>>
     THEN LET expected == CharAt(text, currentIndex)
              typed == typedChars'[Len(typedChars')].char
              before == IF expected \in DOMAIN mistypedKeys
                        THEN mistypedKeys[expected] ELSE 0
          IN IF typed # expected
             THEN /\ DOMAIN mistypedKeys' = DOMAIN mistypedKeys \cup {expected}
                  /\ mistypedKeys'[expected] = before + 1
                  /\ \A k \in DOMAIN mistypedKeys \ {expected} :
                        mistypedKeys'[k] = mistypedKeys[k]
                  /\ Mistakes(mistypedKeys') = Mistakes(mistypedKeys) + 1
             ELSE UNCHANGED mistypedKeys
     ELSE UNCHANGED mistypedKeys]_vars

\* A mistake on "a" was removed by backspace and is still in the tally.
C12_Witness ==
  /\ lastEvent = "handleBackspace"
  /\ hasStarted
  /\ typedChars = <<>>
  /\ errors = 0
  /\ text[1] = "a"
  /\ mistypedKeys = [k \in {"a"} |-> 1]

\* C13: two events delivered to the listener of one render are applied one
\* after the other: two accepted keypresses move the cursor by two and are
\* compared with two consecutive positions of the text, and a keypress
\* followed by Backspace leaves the entries, counters and cursor as they
\* were.
C13_EventsAppliedInOrder ==
  [][/\ (/\ lastEvent' = "keypress-keypress"
          /\ Enabled(St)
          /\ Len(text) - currentIndex >= 2) =>
            /\ currentIndex' = currentIndex + 2
            /\ Len(typedChars') = Len(typedChars) + 2
            /\ typedChars'[currentIndex + 1].expected = text[currentIndex + 1]
            /\ typedChars'[currentIndex + 2].expected = text[currentIndex + 2]
     /\ (/\ lastEvent' = "keypress-backspace"
          /\ mode = "learning"
          /\ Enabled(St)
          /\ Len(text) - currentIndex >= 2) =>
            UNCHANGED <<currentIndex, typedChars, errors, correctCount>>]_vars

\* C14: a tick fires only while the timer runs and takes exactly one from
\* timeRemaining; timeRemaining is never negative; the timer becomes
\* Finished only by the tick that reaches zero, once in a run, and then has
\* no tick source left; isRunning and isFinished are never both true.
C14_CountdownStopsAtZero ==
  /\ [](/\ timeRemaining >= 0
        /\ ~(isRunning /\ isFinished)
        /\ run.finishes <= 1
        /\ isFinished <=> run.finishes = 1
        /\ isFinished => (timeRemaining = 0 /\ intervals = 0))
  /\ [][lastEvent' = "tick" =>
          /\ isRunning
          /\ ~isFinished
          /\ timeRemaining' = timeRemaining - 1
          /\ isFinished' <=> timeRemaining' = 0]_vars
  /\ [][(~isFinished /\ isFinished') =>
          /\ lastEvent' = "tick"
          /\ timeRemaining' = 0]_vars

\* A timer of the full duration has ticked down to zero.
C14_Witness ==
  /\ lastEvent = "tick"
  /\ isFinished
  /\ run.duration = TEST_DURATION
  /\ run.ticks = TEST_DURATION

\* C15: for every duration a timer is created or reset with, the ticks
\* fired and timeRemaining add up to the duration, and once as many ticks
\* as the duration have fired the timer is Finished, not running, at zero;
\* a running timer has its interval, and it finishes unless it is paused
\* or reset.
C15_StartedTimerFinishes ==
  /\ [](/\ timeRemaining = run.duration - run.ticks
        /\ run.ticks = run.duration =>
              (isFinished /\ ~isRunning /\ timeRemaining = 0)
        /\ isRunning => intervals = 1)
  /\ (isRunning ~> (isFinished \/ lastEvent \in {"pause", "reset"}))

\* A timer reset to one second while it was running has finished.
C15_Witness ==
  /\ lastEvent = "tick"
  /\ isFinished
  /\ ~isRunning
  /\ timeRemaining = 0
  /\ run.duration = 1
  /\ run.ticks = 1

\* C16: start called on a running or a finished timer changes nothing and
\* adds no interval.
C16_StartTwiceIsNoOp ==
  /\ [](intervals <= 1)
  /\ [][(lastEvent' = "start" /\ (isRunning \/ isFinished)) =>
          UNCHANGED <<timeRemaining, isRunning, isFinished, intervals,
                      intervalRef>>]_vars

\* start was called on a finished timer.
C16_Witness ==
  /\ lastEvent = "start"
  /\ run.prev.isFinished
  /\ isFinished
  /\ ~isRunning
  /\ intervals = 0

Ended == hasStarted /\ (isFinished \/ isComplete)

\* C18: in test mode a started session has ended, with the results shown
\* and the input refused, as soon as the timer is Finished or the text is
\* exhausted; the step that ends a session adds exactly one history record
\* and no other step changes the history.
C18_OneRecordPerEndedSession ==
  /\ [](Ended <=> showResults)
  /\ [](Ended => ~Enabled(St))
  /\ [][IF ~Ended /\ Ended'
        THEN /\ Len(history') = Len(history) + 1
             /\ SubSeq(history', 2, Len(history')) = history
             /\ history'[1].mode = "test"
        ELSE history' = history]_vars

\* A second session, started after a restart, was ended by the timer.
C18_Witness ==
  /\ Len(history) = 2
  /\ lastEvent = "tick"
  /\ isFinished
  /\ ~isComplete
  /\ showResults

\* C19: the record written when a test session ends has the fixed test
\* duration if the timer expired and the session's elapsed time if the text
\* was exhausted first.
C19_RecordedDuration ==
  [][(~Ended /\ Ended') =>
       /\ isFinished' => history'[1].duration = TEST_DURATION * 1000
       /\ (isComplete' /\ ~isFinished') =>
             history'[1].duration = elapsedTime']_vars

\* A session whose text was exhausted after one elapsed-time sample.
C19_Witness ==
  /\ showResults
  /\ isComplete
  /\ ~isFinished
  /\ elapsedTime = SAMPLE_MS
  /\ history # <<>>
  /\ history[1].duration = SAMPLE_MS

\* C20: in test mode the timer is Ready, at the full duration with no
\* interval, until the first keystroke of a session is accepted; the step
\* that accepts it starts the timer; a restart makes the timer Ready again.
C20_TimerWaitsForFirstKey ==
  /\ [](~hasStarted =>
          /\ ~isRunning
          /\ ~isFinished
          /\ timeRemaining = TEST_DURATION
          /\ intervals = 0)
  /\ [][(~hasStarted /\ hasStarted') =>
          /\ isRunning'
          /\ intervals' = 1
          /\ timeRemaining' = TEST_DURATION]_vars
  /\ [][lastEvent' = "restart" => ~hasStarted']_vars

\* The first keystroke after a restart has started the timer again.
C20_Witness ==
  /\ history # <<>>
  /\ hasStarted
  /\ ~showResults
  /\ isRunning
  /\ intervals = 1
  /\ timeRemaining = TEST_DURATION

\* C21: in learning mode the step that completes a session with at least
\* one character typed adds exactly one history record, and no other step
\* changes the history.
C21_OneRecordPerCompletion ==
  [][mode = "learning" =>
       IF ~isComplete /\ isComplete' /\ Len(typedChars') > 0
       THEN /\ Len(history') = Len(history) + 1
            /\ history'[1].mode = "learning"
       ELSE history' = history]_vars

\* The event was a modifier key alone or a key held with Ctrl, Meta or Alt.
NotTyping(event) ==
  \/ event.key \in ModifierKeys
  \/ event.ctrlKey \/ event.metaKey \/ event.altKey

\* C22: a modifier-only key and a key held with Ctrl, Meta or Alt make no
\* call of handleKeyPress or handleBackspace; handleKeyPress is called only
\* with a single character, Enter arriving as the newline; and no call is
\* made while the input is disabled.
C22_OnlyTypingKeysReachSession ==
  /\ [](NotTyping(delivered.event) => delivered.calls = <<>>)
  /\ [](\A i \in 1..Len(delivered.calls) :
          delivered.calls[i].fn = "handleKeyPress" =>
            /\ Len(delivered.calls[i].key) = 1
            /\ delivered.calls[i].key =
                 IF delivered.event.key = "Enter" THEN "\n"
                 ELSE delivered.event.key)
  /\ [](Len(delivered.calls) <= 1)
  /\ [][(delivered' # delivered /\ ~Enabled(St)) =>
          delivered'.calls = <<>>]_vars

\* The string is a JSON object whose history field is a number.
HistoryIsNumber(jsonString) ==
  /\ jsonString.wellFormed
  /\ jsonString.doc.t = "obj"
  /\ Get(jsonString.doc, "history").t = "num"

\* C23: importing a string whose history field is a number, whatever the
\* number, returns false and leaves history and mistypedKeys as they were.
C23_NumberHistoryRejected ==
  [][(lastEvent' = "import" /\ HistoryIsNumber(imported'.jsonString)) =>
       /\ ~imported'.returned
       /\ UNCHANGED <<history, mistypedKeys>>]_vars

\* A mapping from keys to counts.
IsFlatMapping(x) ==
  /\ x.t = "obj"
  /\ \A k \in DOMAIN x.v : x.v[k].t = "num"

\* The string is not JSON, or has a history that is no list, or has a
\* mistypedKeys that is no flat mapping.
IllShaped(jsonString) ==
  \/ ~jsonString.wellFormed
  \/ /\ jsonString.doc.t = "obj"
     /\ \/ /\ "history" \in DOMAIN jsonString.doc.v
           /\ ~IsArray(jsonString.doc.v["history"])
        \/ /\ "mistypedKeys" \in DOMAIN jsonString.doc.v
           /\ ~IsFlatMapping(jsonString.doc.v["mistypedKeys"])

\* C24: an import of an ill-shaped string returns false, and an import that
\* returns false changes neither history nor mistypedKeys.
C24_ImportAllOrNothing ==
  /\ [][(lastEvent' = "import" /\ ~imported'.returned) =>
          UNCHANGED <<history, mistypedKeys>>]_vars
  /\ [][(lastEvent' = "import" /\ IllShaped(imported'.jsonString)) =>
          /\ ~imported'.returned
          /\ UNCHANGED <<history, mistypedKeys>>]_vars

\* C25: with a list as history and a mapping as mistypedKeys, importing the
\* exported string returns true and leaves both exactly as they were: the
\* version and the timestamp of the export reach neither.
C25_ExportImportRoundTrip ==
  [][(/\ lastEvent' = "export-import"
      /\ IsArray(history)
      /\ IsFlatMapping(mistypedKeys)) =>
       /\ imported'.returned
       /\ imported'.jsonString.wellFormed
       /\ UNCHANGED <<history, mistypedKeys>>]_vars

\* A history of two records and a tally of two keys went through the
\* round trip.
C25_Witness ==
  /\ lastEvent = "export-import"
  /\ imported.returned
  /\ Get(imported.jsonString.doc, "version") = Str("1.0")
  /\ IsArray(history)
  /\ Len(history.v) = 2
  /\ IsFlatMapping(mistypedKeys)
  /\ DOMAIN mistypedKeys.v = {"a", "b"}

\* |a|
Abs(a) == IF a < 0 THEN 0 - a ELSE a

\* C26: accuracy is 100 whenever total <= 0, whatever correct is; otherwise
\* it is correct / total * 100 to the nearest tenth; and with correct fixed
\* it does not rise when the number of incorrect keystrokes grows.
C26_AccuracyOfCounts ==
  /\ [](calc.totalChars <= 0 => calc.accuracy = 1000)
  /\ [](calc.totalChars > 0 =>
          2 * Abs(calc.accuracy * calc.totalChars - calc.correctChars * 1000)
            <= calc.totalChars)
  /\ [][(/\ calc'.correctChars = calc.correctChars
          /\ calc.totalChars >= calc.correctChars
          /\ calc'.totalChars > calc.totalChars) =>
          calc'.accuracy <= calc.accuracy]_vars

\* One correct character of three: 33.3 percent.
C26_Witness ==
  /\ lastEvent = "measure"
  /\ calc.correctChars = 1
  /\ calc.totalChars = 3
  /\ calc.accuracy = 333

\* The second measurement has k times the correct characters of the first,
\* at the same positive elapsed time.
Scaled(k) ==
  /\ calc.elapsedTimeMs > 0
  /\ calc'.elapsedTimeMs = calc.elapsedTimeMs
  /\ calc.correctChars > 0
  /\ calc'.correctChars = k * calc.correctChars

\* C27: wpm is 0 for no correct character, and for an elapsed time that is
\* not positive; at a fixed positive elapsed time, k times the correct
\* characters give exactly k times the wpm.
C27_WpmLinear ==
  /\ []((calc.correctChars = 0 \/ calc.elapsedTimeMs <= 0) => calc.wpm = 0)
  /\ [][\A k \in 1..MaxChars :
          Scaled(k) => calc'.wpm = k * calc.wpm]_vars

\* C27 as amended: wpm is 0 for no correct character, and for an elapsed
\* time that is not positive; otherwise it is
\* (correct / 5) / (t / 60000) to the nearest tenth, so k times the correct
\* characters give k times the wpm up to (k + 1) / 2 tenths of rounding.
C27_WpmLinearUpToRounding ==
  /\ []((calc.correctChars = 0 \/ calc.elapsedTimeMs <= 0) => calc.wpm = 0)
  /\ [](calc.elapsedTimeMs > 0 =>
          2 * Abs(calc.wpm * calc.elapsedTimeMs - calc.correctChars * 120000)
            <= calc.elapsedTimeMs)
  /\ [][\A k \in 1..MaxChars :
          Scaled(k) => 2 * Abs(calc'.wpm - k * calc.wpm) <= k + 1]_vars

\* Four correct characters in seven seconds: 6.9 words per minute, not
\* twice the 3.4 of two characters.
C27_Witness ==
  /\ lastEvent = "measure"
  /\ calc.elapsedTimeMs = 7000
  /\ calc.correctChars = 4
  /\ calc.wpm = 69
  /\ calculateWPM(2, 7000) = 34

\* C28: the accuracy of every render is the accuracy of the correct entries
\* among the currentIndex entries held: 100 while none is held, between 0
\* and 100, and after a backspace has removed a mistake it is the accuracy
\* of the entries left, no lower than before.
C28_LiveAccuracy ==
  /\ [](accuracy(St) =
          calculateAccuracy(Cardinality(CorrectEntries), currentIndex))
  /\ [](0 <= accuracy(St) /\ accuracy(St) <= 1000)
  /\ [](currentIndex = 0 => accuracy(St) = 1000)
  /\ [][(/\ lastEvent' = "Backspace"
          /\ mode = "learning"
          /\ Enabled(St)
          /\ currentIndex > 0
          /\ ~typedChars[Len(typedChars)].correct) =>
          /\ accuracy(St)' >= accuracy(St)
          /\ accuracy(St)' =
               calculateAccuracy(correctCount, currentIndex - 1)]_vars

\* A mistake was made and removed: the tally still holds it and the
\* accuracy is 100 again.
C28_Witness ==
  /\ lastEvent = "Backspace"
  /\ hasStarted
  /\ currentIndex = 0
  /\ errors = 0
  /\ Mistakes(mistypedKeys) = 1
  /\ accuracy(St) = 1000

\* C29: elapsedTime is 0 until the first keystroke; it changes only when
\* the sampling interval of a session in progress fires, to the time since
\* the start of the session, or when a restart sets it to 0; once the
\* session is complete neither elapsedTime nor wpm changes, however much
\* time passes.
C29_ElapsedOnlyInProgress ==
  /\ [](~hasStarted => elapsedTime = 0)
  /\ [][elapsedTime' # elapsedTime =>
          \/ /\ lastEvent' = "sample"
             /\ hasStarted
             /\ ~isComplete
             /\ elapsedTime' = clock' - startTime
          \/ /\ lastEvent' = "restart"
             /\ elapsedTime' = 0]_vars
  /\ [][(lastEvent' = "sample" /\ startTime # NullTime) =>
          elapsedTime' = clock' - startTime]_vars
  /\ [][(isComplete /\ isComplete') =>
          /\ elapsedTime' = elapsedTime
          /\ wpm(St)' = wpm(St)]_vars

\* Time has passed over a complete session that began after a wait and
\* was sampled once.
C29_Witness ==
  /\ lastEvent = "wait"
  /\ isComplete
  /\ startTime = SAMPLE_MS
  /\ elapsedTime = SAMPLE_MS
  /\ clock = startTime + 2 * SAMPLE_MS

\* C30: the start time is taken by the first accepted keypress of a session
\* and by nothing else; once the session has started, no key and no
\* backspace changes hasStarted or the start time until the restart, which
\* clears both.
C30_StartedOncePerSession ==
  /\ [](hasStarted <=> startTime # NullTime)
  /\ [][startTime' # startTime =>
          \/ /\ lastEvent' \in {"char", "Enter"}
             /\ ~hasStarted
             /\ hasStarted'
             /\ currentIndex' = 1
             /\ startTime' = clock
          \/ /\ lastEvent' = "restart"
             /\ startTime' = NullTime]_vars
  /\ [][(hasStarted /\ lastEvent' # "restart") =>
          /\ hasStarted'
          /\ startTime' = startTime]_vars

\* In learning mode a mistake at the first position was removed by
\* backspace and a key typed again, after the clock had moved on.
C30_Witness ==
  /\ mode = "learning"
  /\ lastEvent = "char"
  /\ currentIndex = 1
  /\ errors = 0
  /\ Mistakes(mistypedKeys) = 1
  /\ hasStarted
  /\ startTime = 0
  /\ clock > startTime

(***************************************************************************)
(* C31: reset() from any session state restores the initial session        *)
(* (currentIndex 0, no entries, hasStarted and isComplete false, start     *)
(* time unset, elapsedTime 0, correctCount 0, errors 0) and leaves the     *)
(* countdown timer and the mode selected as they were.                     *)
(***************************************************************************)
C31_ResetRestoresInitial ==
  [][lastEvent' = "reset" =>
       /\ currentIndex' = 0 /\ typedChars' = <<>>
       /\ ~hasStarted' /\ ~isComplete'
       /\ startTime' = NullTime /\ elapsedTime' = 0
       /\ correctCount' = 0 /\ errors' = 0
       /\ timeRemaining' = timeRemaining /\ isRunning' = isRunning
       /\ isFinished' = isFinished /\ intervals' = intervals
       /\ intervalRef' = intervalRef
       /\ mode' = mode]_vars

\* reset found a session under way, its countdown running and partly
\* used, and left the countdown running.
C31_Witness ==
  /\ lastEvent = "reset" /\ mode = "test" /\ isRunning /\ intervals = 1
  /\ timeRemaining < TEST_DURATION /\ timeRemaining > 0
  /\ Mistakes(mistypedKeys) = 1 /\ currentIndex = 0 /\ ~hasStarted
  /\ clock > 0

(***************************************************************************)
(* C32: with an empty text the session never starts and never completes:   *)
(* no key changes the session, hasStarted and isComplete stay false,       *)
(* currentIndex stays 0, no history record is written and the countdown of *)
(* test mode is never started.                                             *)
(***************************************************************************)
C32_EmptyTextNeverStarts ==
  /\ [](text = <<>> =>
          /\ ~hasStarted /\ ~isComplete /\ currentIndex = 0
          /\ typedChars = <<>> /\ correctCount = 0 /\ errors = 0
          /\ startTime = NullTime /\ elapsedTime = 0
          /\ mistypedKeys = EmptyTally /\ history = <<>>
          /\ ~isRunning /\ ~isFinished /\ intervals = 0
          /\ timeRemaining = TEST_DURATION /\ ~showResults)
  /\ [][(text = <<>> /\ lastEvent' \in {"char", "Enter", "Backspace"}) =>
         /\ UNCHANGED sessionVars /\ UNCHANGED timerVars
         /\ UNCHANGED <<history, mistypedKeys, startTime, elapsedTime>>]_vars

\* A printable key was delivered to the test screen of an empty text, some
\* time after it was mounted.
C32_Witness ==
  /\ text = <<>> /\ mode = "test" /\ lastEvent = "char" /\ clock > 0
  /\ ~hasStarted /\ ~isRunning

\* The keys of the layout, and those among them that bind a character:
\* the keys with a shifted character and the space bar.
LayoutKeys ==
  UNION {{keyboardLayout[r][i] : i \in 1..Len(keyboardLayout[r])} :
           r \in 1..Len(keyboardLayout)}
Binding(char) ==
  {e \in LayoutKeys : \/ e.shift # UNDEFINED /\ char \in {e.key, e.shift}
                      \/ e.key = " " /\ char = " "}
\* The finger the layout gives a character, None without a binding.
LayoutFinger(char) ==
  IF Binding(char) = {} THEN None ELSE (CHOOSE e \in Binding(char) : TRUE).finger

(***************************************************************************)
(* C33: the finger lookup is a fixed total function on characters: a       *)
(* printable key's unshifted character and its shifted variant give the    *)
(* same physical key and the same one of the ten fingers, space gives a    *)
(* thumb, and a character without binding gives null; the hint and the     *)
(* pressed finger of the component follow the same table.                  *)
(***************************************************************************)
C33_FingerLookup ==
  /\ lastEvent = "getFingerForChar" =>
       LET char == keyboard.char
           info == getKeyInfo(charToKeyInfo, char)
       IN /\ Cardinality(Binding(char)) <= 1
          /\ keyboard.finger = LayoutFinger(char)
          /\ keyboard.finger \in Finger \cup {None}
          /\ \A e \in Binding(char) :
               /\ info.key = e.key /\ info.finger = e.finger
               /\ info.isHome = e.isHome
               /\ e.shift # UNDEFINED =>
                    /\ getFingerForChar(charToKeyInfo, e.key) = keyboard.finger
                    /\ getFingerForChar(charToKeyInfo, e.shift) = keyboard.finger
                    /\ getKeyInfo(charToKeyInfo, e.key).key
                         = getKeyInfo(charToKeyInfo, e.shift).key
          /\ char = " " => keyboard.finger \in {"L_THUMB", "R_THUMB"}
          /\ Binding(char) = {} => info = NoKeyInfo /\ keyboard.finger = None
  /\ keyboard.hintedFinger =
       (IF keyboard.hintedKey = None THEN None
        ELSE LayoutFinger(keyboard.hintedKey))
  /\ keyboard.pressedFinger =
       (IF keyboard.activeKey = None THEN None
        ELSE LayoutFinger(keyboard.activeKey))

\* The shifted character of the last key of the bottom letter row was
\* looked up while its unshifted neighbour of the home row was hinted.
C33_Witness ==
  /\ lastEvent = "getFingerForChar" /\ keyboard.char = "?"
  /\ keyboard.finger = "R_PINKY" /\ keyboard.hintedKey = "A"
  /\ keyboard.hintedFinger = "L_PINKY" /\ keyboard.activeKey = " "
  /\ keyboard.pressedFinger = "R_THUMB"

\* The screen and the store without the count of effect passes.
PassesApart(s) == [s EXCEPT !.effects.passes = 0]

(***************************************************************************)
(* C34: once an event is processed the chain of effect-triggered store     *)
(* updates reaches a fixed point.  An effect pass that leaves the screen   *)
(* and the store exactly as it found them, with an effect due again, is    *)
(* followed by the same pass without end; no pass is such a pass.          *)
(***************************************************************************)
C34_EffectChainEnds ==
  [][lastEvent' = "effects" =>
       ~(PassesApart(St)' = PassesApart(St) /\ EffectsDue(St)')]_vars

\* A test session ended by its timer with the text not exhausted, its
\* results displayed.
TimedOut == mode = "test" /\ isFinished /\ ~isComplete /\ showResults

(***************************************************************************)
(* C35: in test mode, once the timer has ended the session with the text   *)
(* not exhausted, elapsedTime and wpm no longer change until the restart,  *)
(* and the wpm displayed with the results is the one of the history        *)
(* record.                                                                 *)
(***************************************************************************)
C35_TimedOutMetricsFrozen ==
  /\ [](TimedOut => history[1].wpm = wpm(St))
  /\ [][(TimedOut /\ lastEvent' # "restart") =>
         /\ elapsedTime' = elapsedTime
         /\ wpm(St)' = wpm(St)]_vars

\* A test session ended by exhausting its text before the timer expired,
\* its results displayed.
Exhausted == mode = "test" /\ isComplete /\ ~isFinished /\ showResults

(***************************************************************************)
(* C36: in test mode, when the text is exhausted before the timer expires  *)
(* the countdown of that session never afterwards reaches Finished, and    *)
(* the duration reported with the results stays the elapsed time of the    *)
(* session until the restart.                                              *)
(***************************************************************************)
C36_TimerStopsAtExhaustion ==
  [][(Exhausted /\ lastEvent' # "restart") =>
       /\ ~isFinished'
       /\ resultsElapsedTime(St)' = resultsElapsedTime(St)]_vars

(***************************************************************************)
(* C37: in test mode, once the countdown is Finished no key event changes  *)
(* currentIndex, the entries, correctCount, errors or the mistyped-key     *)
(* tally until the restart, a keystroke that arrives together with the     *)
(* final tick included.                                                    *)
(***************************************************************************)
C37_NoInputAfterFinish ==
  [][(/\ mode = "test"
      /\ \/ isFinished /\ lastEvent' # "restart"
         \/ lastEvent' = "tick-key" /\ isFinished') =>
       UNCHANGED <<currentIndex, typedChars, correctCount, errors,
                   mistypedKeys>>]_vars

\* The string is a JSON object whose history, if it has one, is a list and
\* whose mistypedKeys, if it has one, is a mapping from keys to counts.
WellShaped(jsonString) ==
  /\ jsonString.wellFormed
  /\ jsonString.doc.t = "obj"
  /\ ~IllShaped(jsonString)

\* The field of an imported document, the given value if it has none.
FieldOr(jsonString, field, empty) ==
  IF field \in DOMAIN jsonString.doc.v THEN jsonString.doc.v[field] ELSE empty

(***************************************************************************)
(* C38: the import of a well-shaped file succeeds and replaces both stored *)
(* fields: history and mistypedKeys become exactly the imported values,    *)
(* and a field the file omits becomes the empty list or the empty mapping  *)
(* whatever was stored.                                                    *)
(***************************************************************************)
C38_ImportReplacesBoth ==
  [][(lastEvent' = "import" /\ WellShaped(imported'.jsonString)) =>
       /\ imported'.returned
       /\ history' = FieldOr(imported'.jsonString, "history", List(<<>>))
       /\ mistypedKeys' =
            FieldOr(imported'.jsonString, "mistypedKeys", Obj(NoProps))]_vars

\* A file with a tally and no history was imported: the history is empty.
C38_Witness ==
  /\ lastEvent = "import"
  /\ imported.returned
  /\ WellShaped(imported.jsonString)
  /\ DOMAIN imported.jsonString.doc.v = {"mistypedKeys"}
  /\ history = List(<<>>)
  /\ mistypedKeys = Obj([k \in {"a", "b"} |-> IF k = "a" THEN Num(2) ELSE Num(1)])

(***************************************************************************)
(* C39: the history store keeps the session records newest first and never *)
(* more than 100 of them.  The records are added one per millisecond from  *)
(* an empty store, so clock is the number of records added and a record's  *)
(* timestamp tells which one it is: the length is min(added, 100), the     *)
(* record at position i is the i-th most recent one, and a call made to a  *)
(* full store drops the oldest record only.                                *)
(***************************************************************************)
C39_HistoryNewestFirstCapped ==
  /\ [](Len(history) = IF clock <= HISTORY_LIMIT THEN clock ELSE HISTORY_LIMIT)
  /\ [](\A i \in 1..Len(history) : history[i].timestamp = clock - i)
  /\ [][lastEvent' = "addHistory" =>
         /\ history'[1] = SessionAt(mode, clock)
         /\ SubSeq(history', 2, Len(history')) =
              (IF Len(history) = HISTORY_LIMIT
               THEN SubSeq(history, 1, HISTORY_LIMIT - 1) ELSE history)]_vars

\* Two records were added to a full store: the two oldest are gone.
C39_Witness ==
  /\ lastEvent = "addHistory"
  /\ clock = HISTORY_LIMIT + 2
  /\ Len(history) = HISTORY_LIMIT
  /\ history[1].timestamp = HISTORY_LIMIT + 1
  /\ history[HISTORY_LIMIT].timestamp = 2

====
